---- MODULE Spec2Model ----
(***************************************************************************)
(* Model of obsvec: the SQLite store (documents, chunks, vec_chunks), the  *)
(* incremental indexer (Index, parseFile, embedPending), the debounced     *)
(* file watcher (handleEvent, indexPendingFiles) and the search pipeline.  *)
(*                                                                         *)
(* Every SQL statement, file-system call and provider call is one atomic   *)
(* step; a Go function that issues several of them is a call frame with a  *)
(* program counter, so that the watcher's two goroutines and the file      *)
(* system can interleave between statements.                               *)
(***************************************************************************)
EXTENDS Integers, Sequences, FiniteSets, TLC

(***************************************************************************)
(* Bounds of the model.                                                    *)
(***************************************************************************)
\* largest rowid the chunks table may hand out
MaxRowid == 4
\* file modification times are drawn from 0..MaxMtime (epoch seconds)
MaxMtime == 1
\* number of file-system operations (create/write/remove) in a behaviour
MaxFsOps == 4
\* number of process starts (ofind -index / ofind -watch) in a behaviour
MaxRuns == 2
\* number of ofind -index runs over a tree of one note
MaxPasses == 3
\* number of file-system operations before ofind -index is run twice
MaxEdits == 2
\* number of file-system operations while ofind -watch runs
MaxWatchOps == 3
\* a note has at most MaxChunks chunks
MaxChunks == 1
\* capacity of the fsnotify event channel
MaxEvents == 2
\* number of embedded chunks in the store a search runs over
MaxCands == 3
\* number of entries in a rerank response
MaxRerank == 2
\* heading levels are drawn from 1..MaxLevel
MaxLevel == 3
\* number of lines of a text given to chunkMarkdown
MaxLines == 5
\* number of lines of a text of headings and paragraphs
MaxHeadLines == 8
\* number of file-system operations on a tree of two notes that ofind -index
\* runs over
MaxTreeOps == 2
\* batch size of embedPending, scaled down from the source's 96
batchSize == 2
\* number of bytes of a short line of a text whose title is extracted
MaxTitleChars == 3
\* number of lines of a text whose title is extracted
MaxTitleLines == 2

(***************************************************************************)
(* Paths.  A path is a sequence of one-character strings, so that the      *)
(* prefix and suffix tests of the source are computed, not assumed.        *)
(***************************************************************************)
pathA == <<"a", ".", "m", "d">>
pathB == <<"b", ".", "M", "D">>
pathC == <<"c", ".", "m", "d">>

\* a note in a hidden directory of the root, a hidden note of the root, and
\* in the directory n: a hidden note, a note in a hidden directory, a note
\* and a file that is no note
pathO == <<".", "o", "/", "c", ".", "m", "d">>
pathR == <<".", "r", ".", "m", "d">>
pathH == <<"n", "/", ".", "h", ".", "m", "d">>
pathS == <<"n", "/", ".", "o", "/", "d", ".", "m", "d">>
pathN == <<"n", "/", "e", ".", "m", "d">>
pathT == <<"n", "/", "t", ".", "t", "x", "t">>

\* the walk order of filepath.Walk (lexical)
AllPaths == <<pathO, pathR, pathA, pathB, pathC, pathH, pathS, pathN, pathT>>

Paths == {AllPaths[i] : i \in 1..Len(AllPaths)}

\* the notes of the root directory
NotePaths == {pathA, pathB, pathC}

\* the notes that change while the watcher runs (and between the two runs
\* of SpecTwice)
WatchPaths == {pathA, pathB}

\* the name of a root directory that is not hidden
rootName == <<"v">>

ToLower(c) ==
  CASE c = "M" -> "m"
    [] c = "D" -> "d"
    [] c = "A" -> "a"
    [] OTHER -> c

HasPrefix(s, pre) ==
  /\ Len(s) >= Len(pre)
  /\ \A i \in 1..Len(pre) : s[i] = pre[i]

HasSuffix(s, suf) ==
  /\ Len(s) >= Len(suf)
  /\ \A i \in 1..Len(suf) : s[Len(s) - Len(suf) + i] = suf[i]

LowerStr(s) == [i \in 1..Len(s) |-> ToLower(s[i])]

isHiddenDir(name) == HasPrefix(name, <<".">>)

isHiddenRelPath(relPath) == HasPrefix(relPath, <<".">>)

isMarkdownFile(name) == HasSuffix(LowerStr(name), <<".", "m", "d">>)

\* positions of the separators of a path
SepPos(p) == {i \in 1..Len(p) : p[i] = "/"}

\* the directory components of a root-relative path (all but the last)
DirComponents(p) ==
  LET seps == SepPos(p)
      Start(i) == IF \E j \in seps : j < i
                  THEN 1 + CHOOSE j \in seps : j < i /\ \A k \in seps : k < i => k <= j
                  ELSE 1
  IN {SubSeq(p, Start(i), i - 1) : i \in seps}

BaseName(p) ==
  LET seps == SepPos(p)
  IN IF seps = {} THEN p
     ELSE SubSeq(p, 1 + (CHOOSE j \in seps : \A k \in seps : k <= j), Len(p))

(***************************************************************************)
(* File contents.  Content c is a note that chunkMarkdown turns into c     *)
(* chunks; chunk k of content c has the text <<c, k>>.                     *)
(***************************************************************************)
Contents == 0..MaxChunks

chunkTexts(c) == [k \in 1..c |-> <<c, k>>]

\* the vector the provider returns for a text
Embed(text) == <<"vec", text>>

NoFile == [exists |-> FALSE, mtime |-> 0, content |-> 0]

(***************************************************************************)
(* Idle values of the call frames.                                         *)
(***************************************************************************)
IxIdle == [pc |-> "idle", full |-> FALSE, files |-> <<>>, existing |-> {},
           toDelete |-> <<>>, i |-> 1, toIndex |-> <<>>, allPending |-> <<>>,
           mt |-> {}, chunks0 |-> {}, after |-> FALSE, retry |-> FALSE]

PfIdle == [pc |-> "idle", path |-> <<>>, mtime |-> 0, content |-> 0,
           docID |-> 0, chunkIDs |-> <<>>, todo |-> <<>>, pending |-> <<>>]

EmbIdle == [pc |-> "idle", pending |-> <<>>, i |-> 1, vecs |-> <<>>, j |-> 1]

\* no ofind -watch process
ProcNone == [ctx |-> "none", main |-> "none", ev |-> "none", swp |-> "none", handle |-> "none"]

\* NewWatcher has opened the fsnotify handle, runWatch has made the
\* context, and Start has launched processEvents and processPending and
\* waits on ctx.Done()
ProcStarted == [ctx |-> "live", main |-> "start", ev |-> "run", swp |-> "run", handle |-> "open"]

\* the context is cancelled, Start and main have returned and the process
\* is gone with its goroutines; nothing has called Watcher.Stop, the only
\* caller of w.watcher.Close()
ProcExited == [ctx |-> "cancelled", main |-> "exited", ev |-> "done", swp |-> "done",
               handle |-> "open"]

DelIdle == [pc |-> "idle", path |-> <<>>, docID |-> 0, chunkIDs |-> <<>>]

SwIdle == [pc |-> "idle", toIndex |-> <<>>, cur |-> <<>>]

\* hist.last before the watcher's first indexFile call has reached its upsert
NoLast == [path |-> <<>>, content |-> 0, had |-> FALSE, result |-> "none",
           units |-> <<>>, calls |-> <<>>, atCancel |-> FALSE]

RunIdle == [embedCalls |-> 0, reads |-> {}, chunkWrites |-> 0]

\* err is the message Search puts before the cause; calls and fault are
\* history: the client methods and provider requests made so far, and the
\* failure the environment has produced
SrchIdle == [pc |-> "idle", candidates |-> <<>>, rerankResults |-> <<>>,
             results |-> <<>>, err |-> "none", cause |-> "none",
             calls |-> <<>>, fault |-> "none"]

\* debounceDelay = 2 * time.Second, in seconds
debounceDelay == 2

\* maxChunkTokens and avgCharsPerToken: their product is the size budget
maxChunkTokens == 500

avgCharsPerToken == 4

\* the length a trimmed buffer must exceed to be kept (flushChunk)
minChunkLen == 20

\* the number of nearest chunks Search asks the store for
vectorSearchLimit == 20

\* the number of results Search asks the reranker for
rerankTopN == 10

VARIABLES
  fs,          \* the note tree: path -> [exists, mtime, content]
  documents,   \* table documents: set of [id, path, modified_at]
  chunks,      \* table chunks: set of [id, doc_id, text, owner]; owner is
               \* the note the chunk was cut from (not a column)
  vec_chunks,  \* table vec_chunks: set of [chunk_id, embedding, owner]
  lastRowid,   \* sqlite3_last_insert_rowid of the process's connection
  mode,        \* "off", "index" (ofind -index), "watch" (ofind -watch) or
               \* "search" (ofind with a query)
  runs,        \* process starts so far
  fsOps,       \* file-system operations so far
  ix,          \* frame of Indexer.Index
  pf,          \* frame of Indexer.parseFile
  emb,         \* frame of Indexer.embedPending
  del,         \* frame of DB.DeleteDocument
  events,      \* fsnotify's Events channel
  pending,     \* Watcher.pending: path -> age of the timestamp, or -1
  mu,          \* holder of Watcher.mu
  sw,          \* frame of Watcher.indexPendingFiles
  inflight,    \* path -> number of indexFile calls in flight
  burst,       \* path -> the watcher's events for it and what they caused
  run,         \* what the current Index call has done so far
  hist,        \* history of the Index calls relative to the note tree
  srch,        \* frame of Searcher.Search
  ck,          \* frame of chunkMarkdown
  tt,          \* frame of extractTitle
  root,        \* the name of the root directory (idx.dir's last component)
  proc         \* the ofind -watch process: its context, main goroutine,
               \* two tasks and fsnotify handle

\* the files the tree under the root can hold
Tree == DOMAIN fs

vars == <<fs, documents, chunks, vec_chunks, lastRowid, mode, runs, fsOps,
          ix, pf, emb, del, events, pending, mu, sw, inflight, burst, run, hist,
          srch, ck, tt, root, proc>>

storeVars == <<documents, chunks, vec_chunks, lastRowid>>
watchVars == <<events, pending, mu, sw, inflight, burst>>
frameVars == <<ix, pf, emb, del>>

(***************************************************************************)
(* Helpers on sets and sequences.                                          *)
(***************************************************************************)
MaxOf(S) == IF S = {} THEN 0 ELSE CHOOSE m \in S : \A x \in S : x <= m

MinOf(S) == CHOOSE m \in S : \A x \in S : m <= x

RECURSIVE SortedSeq(_)
SortedSeq(S) == IF S = {} THEN <<>>
                ELSE <<MinOf(S)>> \o SortedSeq(S \ {MinOf(S)})

Range(s) == {s[i] : i \in 1..Len(s)}

SelectPaths(P(_)) == SelectSeq(AllPaths, P)

(***************************************************************************)
(* The store.                                                              *)
(***************************************************************************)
DocByPath(path) == {d \in documents : d.path = path}

\* SELECT id FROM chunks WHERE doc_id = ?
ChunkIDsOf(docID) == SortedSeq({c.id : c \in {x \in chunks : x.doc_id = docID}})

\* the rowid SQLite gives a new row of an INTEGER PRIMARY KEY table
NextDocID == MaxOf({d.id : d \in documents}) + 1
NextChunkID == MaxOf({c.id : c \in chunks}) + 1

\* UpsertDocument: the id the function returns.  On the insert path it is
\* the new rowid; on the ON CONFLICT DO UPDATE path no row is inserted and
\* result.LastInsertId() is the connection's last insert rowid, unchanged.
UpsertResult(path) ==
  IF DocByPath(path) = {} THEN NextDocID ELSE lastRowid

UpsertDocuments(path, modifiedAt) ==
  IF DocByPath(path) = {}
  THEN documents \cup {[id |-> NextDocID, path |-> path, modified_at |-> modifiedAt]}
  ELSE {IF d.path = path THEN [d EXCEPT !.modified_at = modifiedAt] ELSE d
        : d \in documents}

\* SearchSimilar: the rows of vec_chunks JOIN chunks JOIN documents
SearchSimilar ==
  {[chunk_id |-> v.chunk_id, doc_id |-> c.doc_id, text |-> c.text, path |-> d.path]
   : <<v, c, d>> \in {t \in vec_chunks \X chunks \X documents :
                        t[2].id = t[1].chunk_id /\ t[3].id = t[2].doc_id}}

\* a change of the tree
HistChange == [hist EXCEPT !.clean = FALSE, !.indexed = FALSE, !.retry = "none"]

(***************************************************************************)
(* The file system (environment).                                          *)
(***************************************************************************)
\* addWatchRecursive has put a watch on the directory of p: the walk from
\* the root reached it without meeting a hidden directory
Watched(p) == ~isHiddenDir(root) /\ \A d \in DirComponents(p) : ~isHiddenDir(d)

Emit(op, p) ==
  IF mode = "watch" /\ Watched(p)
  THEN /\ Len(events) < MaxEvents
       /\ events' = Append(events, [op |-> op, name |-> p])
  ELSE events' = events

\* While Index runs, a change of note p is taken right before a step that
\* looks at p in the tree (os.Stat, os.ReadFile): it commutes with every
\* other step of Index, which neither reads the tree nor is seen by it.
FsSeen(p) ==
  mode = "index" =>
    \/ ix.pc = "check" /\ ix.i <= Len(ix.files) /\ ix.files[ix.i] = p
    \/ pf.pc \in {"stat", "read"} /\ pf.path = p

\* a note is created or rewritten
FsWrite(p, c, m, limit) ==
  /\ fsOps < limit
  /\ FsSeen(p)
  /\ fsOps' = fsOps + 1
  /\ fs' = [fs EXCEPT ![p] = [exists |-> TRUE, mtime |-> m, content |-> c]]
  /\ Emit(IF fs[p].exists THEN "write" ELSE "create", p)
  /\ hist' = HistChange
  /\ UNCHANGED <<storeVars, mode, runs, proc, srch, ck, frameVars, pending, mu, sw, inflight, burst, run, tt, root>>

\* a note is removed
FsRemove(p, limit) ==
  /\ fsOps < limit
  /\ FsSeen(p)
  /\ fs[p].exists
  /\ fsOps' = fsOps + 1
  /\ fs' = [fs EXCEPT ![p] = NoFile]
  /\ Emit("remove", p)
  /\ hist' = HistChange
  /\ UNCHANGED <<storeVars, mode, runs, proc, srch, ck, frameVars, pending, mu, sw, inflight, burst, run, tt, root>>

(***************************************************************************)
(* Returns.  A frame that finishes resumes its caller in the same step.    *)
(***************************************************************************)
\* hist.clean:   the tree has not changed since the last Index call began
\* hist.indexed: an Index call that began after the last change of the tree
\*               has returned success
\* hist.code:    what the last Index call returned: "ok" for nil, else the
\*               error ("err": os.Stat or os.ReadFile, "fault": a statement
\*               of the store, "provider": EmbedDocuments, "unique":
\*               InsertEmbedding); "none" while a call runs
\* hist.fault:   a statement of the store has failed
\* hist.had:     the notes that were in the tree of such a call
\* hist.last:    the watcher's last indexFile call that reached UpsertDocument:
\*               its path, the content it read, whether the path had a
\*               Document, its result ("running" until it returns), the
\*               pending units parseFile returned, and the provider calls
\*               of its embedPending (the texts sent, whether it succeeded)
\* hist.retry:   "aborted" when the last Index call began after the last
\*               change of the tree and was aborted by the embedding
\*               provider; "retried" when the next call, with
\*               fullReindex = false, has then returned success
HistReturn(result) ==
  [hist EXCEPT
     !.code = result,
     !.fault = @ \/ result = "fault",
     !.indexed = IF result = "ok" THEN hist.clean ELSE @,
     !.had = IF result = "ok" /\ hist.clean THEN @ \cup Range(ix.files) ELSE @,
     !.retry = IF result = "provider" /\ hist.clean THEN "aborted"
               ELSE IF result = "ok" /\ hist.clean /\ ix.retry THEN "retried"
               ELSE "none"]

\* Index returns to main, and the process exits
IndexReturn(result, r) ==
  /\ ix' = IxIdle
  /\ mode' = "off"
  /\ run' = RunIdle
  /\ hist' = HistReturn(result)

SwAfter(s) == IF s.toIndex = <<>> THEN SwIdle ELSE [s EXCEPT !.cur = <<>>]

\* Index's embedPending, or the watcher's indexFile, returns; h is the
\* history up to the return
FinishFrom(h, result, r) ==
  IF mode = "index"
  THEN /\ IndexReturn(result, r)
       /\ UNCHANGED <<sw, inflight>>
  ELSE /\ sw' = SwAfter(sw)
       /\ inflight' = [inflight EXCEPT ![sw.cur] = @ - 1]
       /\ hist' = [h EXCEPT !.fault = @ \/ result = "fault",
                            !.last.result = IF @ = "running" THEN result ELSE @]
       /\ UNCHANGED <<ix, mode, run>>

Finish(result, r) == FinishFrom(hist, result, r)

\* the frame goes on; h is the history up to here
ContinueFrom(h, r) ==
  /\ run' = IF mode = "index" THEN r ELSE run
  /\ hist' = h
  /\ UNCHANGED <<ix, mode, sw, inflight>>

Continue(r) == ContinueFrom(hist, r)

\* Index going on to the checks with documents left to delete
IxSkipDelete(f) == [f EXCEPT !.pc = "check", !.i = 1]

IxAfterDelete(f) ==
  IF f.toDelete = <<>> THEN [f EXCEPT !.pc = "check", !.i = 1] ELSE f

\* DeleteDocument returns to Index or to handleEvent
DelReturn(ok) ==
  /\ del' = DelIdle
  /\ IF mode = "index"
     THEN /\ IF ok
             THEN /\ ix' = IxAfterDelete(ix)
                  /\ UNCHANGED <<mode, run, hist>>
             ELSE IndexReturn("fault", run)
          /\ mu' = mu
     ELSE /\ mu' = "none"
          /\ hist' = [hist EXCEPT !.fault = @ \/ ~ok]
          /\ UNCHANGED <<ix, mode, run>>

\* parseFile returns its pending chunks to Index or to indexFile
PfDone(pendingSeq, r) ==
  /\ pf' = PfIdle
  /\ IF mode = "index"
     THEN /\ ix' = [ix EXCEPT !.allPending = @ \o pendingSeq, !.i = @ + 1]
          /\ run' = r
          /\ UNCHANGED <<mode, hist, sw, inflight, emb>>
     ELSE IF pendingSeq = <<>>
          THEN /\ Finish("ok", r)
               /\ emb' = emb
          ELSE /\ emb' = [EmbIdle EXCEPT !.pc = "call", !.pending = pendingSeq]
               /\ hist' = [hist EXCEPT !.last.units = pendingSeq]
               /\ UNCHANGED <<ix, mode, run, sw, inflight>>

\* Index skipping a file that parseFile could not read
PfErrorSkip(result) ==
  /\ pf' = PfIdle
  /\ emb' = emb
  /\ IF mode = "index"
     THEN /\ ix' = [ix EXCEPT !.i = @ + 1]
          /\ UNCHANGED <<mode, run, hist, sw, inflight>>
     ELSE Finish(result, run)

\* parseFile returns an error
PfError(result) ==
  /\ pf' = PfIdle
  /\ emb' = emb
  /\ Finish(result, run)

(***************************************************************************)
(* DB.DeleteDocument, one statement per step.                              *)
(***************************************************************************)
DelSelDoc ==
  /\ del.pc = "selDoc"
  /\ IF DocByPath(del.path) = {}
     THEN DelReturn(TRUE)
     ELSE /\ del' = [del EXCEPT !.pc = "selChunks",
                                !.docID = (CHOOSE d \in DocByPath(del.path) : TRUE).id]
          /\ UNCHANGED <<ix, mode, run, hist, mu>>
  /\ UNCHANGED <<fs, fsOps, storeVars, runs, proc, srch, ck, pf, emb, events, pending, sw, inflight, burst, tt, root>>

DelSelChunks ==
  /\ del.pc = "selChunks"
  /\ del' = [del EXCEPT !.pc = "delete", !.chunkIDs = ChunkIDsOf(del.docID)]
  /\ UNCHANGED <<fs, fsOps, storeVars, mode, runs, proc, srch, ck, ix, pf, emb, watchVars, run, hist, tt, root>>

\* DELETE FROM vec_chunks WHERE chunk_id = ?
DelVec ==
  /\ del.pc = "delete"
  /\ del.chunkIDs # <<>>
  /\ vec_chunks' = {v \in vec_chunks : v.chunk_id # Head(del.chunkIDs)}
  /\ del' = [del EXCEPT !.chunkIDs = Tail(@)]
  /\ UNCHANGED <<fs, fsOps, documents, chunks, lastRowid, mode, runs, proc, srch, ck, ix, pf, emb,
                 watchVars, run, hist, tt, root>>

\* DELETE FROM chunks WHERE doc_id = ?
DelChunks ==
  /\ del.pc = "delete"
  /\ del.chunkIDs = <<>>
  /\ chunks' = {c \in chunks : c.doc_id # del.docID}
  /\ del' = [del EXCEPT !.pc = "delDoc"]
  /\ UNCHANGED <<fs, fsOps, documents, vec_chunks, lastRowid, mode, runs, proc, srch, ck, ix, pf, emb,
                 watchVars, run, hist, tt, root>>

\* DELETE FROM documents WHERE id = ?
DelDoc ==
  /\ del.pc = "delDoc"
  /\ documents' = {d \in documents : d.id # del.docID}
  /\ DelReturn(TRUE)
  /\ UNCHANGED <<fs, fsOps, chunks, vec_chunks, lastRowid, runs, proc, srch, ck, pf, emb,
                 events, pending, sw, inflight, burst, tt, root>>

\* a statement of DeleteDocument fails and the function returns the error
DelFail ==
  /\ del.pc \in {"selChunks", "delete", "delDoc"}
  /\ DelReturn(FALSE)
  /\ UNCHANGED <<fs, fsOps, storeVars, runs, proc, srch, ck, pf, emb, events, pending, sw, inflight, burst, tt, root>>

(***************************************************************************)
(* Indexer.parseFile, one call per step.                                   *)
(***************************************************************************)
PfStat ==
  /\ pf.pc = "stat"
  /\ IF fs[pf.path].exists
     THEN /\ pf' = [pf EXCEPT !.pc = "read", !.mtime = fs[pf.path].mtime]
          /\ emb' = emb
          /\ Continue(run)
     ELSE PfError("err")
  /\ UNCHANGED <<fs, fsOps, storeVars, runs, proc, srch, ck, del, events, pending, mu, burst, tt, root>>

PfRead ==
  /\ pf.pc = "read"
  /\ IF fs[pf.path].exists
     THEN /\ pf' = [pf EXCEPT !.pc = "upsert", !.content = fs[pf.path].content]
          /\ emb' = emb
          /\ Continue([run EXCEPT !.reads = @ \cup {pf.path}])
     ELSE PfError("err")
  /\ UNCHANGED <<fs, fsOps, storeVars, runs, proc, srch, ck, del, events, pending, mu, burst, tt, root>>

PfUpsert ==
  /\ pf.pc = "upsert"
  /\ documents' = UpsertDocuments(pf.path, pf.mtime)
  /\ lastRowid' = IF DocByPath(pf.path) = {} THEN NextDocID ELSE lastRowid
  /\ pf' = [pf EXCEPT !.pc = "selChunks", !.docID = UpsertResult(pf.path)]
  /\ run' = run
  /\ hist' = IF mode = "watch"
             THEN [hist EXCEPT !.last = [path |-> pf.path, content |-> pf.content,
                                         had |-> DocByPath(pf.path) # {},
                                         result |-> "running",
                                         units |-> <<>>, calls |-> <<>>,
                                         atCancel |-> hist.last.atCancel]]
             ELSE hist
  /\ UNCHANGED <<ix, mode, sw, inflight>>
  /\ UNCHANGED <<fs, fsOps, chunks, vec_chunks, runs, proc, srch, ck, emb, del, events, pending, mu, burst, tt, root>>

\* DeleteChunksForDocument: SELECT id FROM chunks WHERE doc_id = ?
PfSelChunks ==
  /\ pf.pc = "selChunks"
  /\ pf' = [pf EXCEPT !.pc = "delete", !.chunkIDs = ChunkIDsOf(pf.docID)]
  /\ Continue(run)
  /\ UNCHANGED <<fs, fsOps, storeVars, runs, proc, srch, ck, emb, del, events, pending, mu, burst, tt, root>>

\* DeleteChunksForDocument: DELETE FROM vec_chunks WHERE chunk_id = ?
PfDelVec ==
  /\ pf.pc = "delete"
  /\ pf.chunkIDs # <<>>
  /\ vec_chunks' = {v \in vec_chunks : v.chunk_id # Head(pf.chunkIDs)}
  /\ pf' = [pf EXCEPT !.chunkIDs = Tail(@)]
  /\ Continue(run)
  /\ UNCHANGED <<fs, fsOps, documents, chunks, lastRowid, runs, proc, srch, ck, emb, del, events, pending, mu, burst, tt, root>>

\* DeleteChunksForDocument: DELETE FROM chunks WHERE doc_id = ?, then
\* chunkMarkdown
PfDelChunks ==
  /\ pf.pc = "delete"
  /\ pf.chunkIDs = <<>>
  /\ chunks' = {c \in chunks : c.doc_id # pf.docID}
  /\ IF chunkTexts(pf.content) = <<>>
     THEN PfDone(<<>>, run)
     ELSE /\ pf' = [pf EXCEPT !.pc = "insert", !.todo = chunkTexts(pf.content)]
          /\ emb' = emb
          /\ Continue(run)
  /\ UNCHANGED <<fs, fsOps, documents, vec_chunks, lastRowid, runs, proc, srch, ck, del, events, pending, mu, burst, tt, root>>

\* a statement of DeleteChunksForDocument fails
PfDelFail ==
  /\ pf.pc \in {"selChunks", "delete"}
  /\ PfError("fault")
  /\ UNCHANGED <<fs, fsOps, storeVars, runs, proc, srch, ck, del, events, pending, mu, burst, tt, root>>

\* InsertChunk
PfInsert ==
  /\ pf.pc = "insert"
  /\ NextChunkID <= MaxRowid
  /\ chunks' = chunks \cup {[id |-> NextChunkID, doc_id |-> pf.docID,
                             text |-> Head(pf.todo), owner |-> pf.path]}
  /\ lastRowid' = NextChunkID
  /\ LET pend == Append(pf.pending, [chunkID |-> NextChunkID, content |-> Head(pf.todo),
                                     owner |-> pf.path])
         r == [run EXCEPT !.chunkWrites = @ + 1]
     IN IF Tail(pf.todo) = <<>>
        THEN PfDone(pend, IF mode = "index" THEN r ELSE run)
        ELSE /\ pf' = [pf EXCEPT !.todo = Tail(@), !.pending = pend]
             /\ emb' = emb
             /\ Continue(r)
  /\ UNCHANGED <<fs, fsOps, documents, vec_chunks, runs, proc, srch, ck, del, events, pending, mu, burst, tt, root>>

(***************************************************************************)
(* Indexer.embedPending.                                                   *)
(***************************************************************************)
\* a batch that runs to the end of the pending units
BatchEndWhole(f) == Len(f.pending)

\* end := i + batchSize; if end > len(pending) { end = len(pending) }
BatchEnd(f) == IF f.i + batchSize - 1 > Len(f.pending) THEN Len(f.pending)
               ELSE f.i + batchSize - 1

Batch(f) == SubSeq(f.pending, f.i, BatchEnd(f))

\* texts[j] = p.content
Texts(batch) == [k \in 1..Len(batch) |-> batch[k].content]

\* the context handed to indexFile and on to EmbedDocuments has not been
\* cancelled (runIndex hands over context.Background())
CtxLive == proc.ctx # "cancelled"

\* the history with one more provider call of the watcher's indexFile
Called(texts, ok) ==
  IF mode = "watch"
  THEN [hist EXCEPT !.last.calls = Append(@, [texts |-> texts, ok |-> ok, live |-> CtxLive])]
  ELSE hist

\* embedPending going on to the next batch when the provider call fails
EmbCallSkip(ok) ==
  /\ emb.pc = "call"
  /\ ok => CtxLive
  /\ LET r == IF mode = "index" THEN [run EXCEPT !.embedCalls = @ + 1] ELSE run
         texts == Texts(Batch(emb))
     IN IF ok
        THEN /\ emb' = [emb EXCEPT !.pc = "store", !.j = 1,
                          !.vecs = [k \in 1..Len(texts) |-> Embed(texts[k])]]
             /\ ContinueFrom(Called(texts, ok), r)
        ELSE IF emb.i + batchSize > Len(emb.pending)
             THEN /\ emb' = EmbIdle
                  /\ FinishFrom(Called(texts, ok), "provider", r)
             ELSE /\ emb' = [emb EXCEPT !.i = @ + batchSize]
                  /\ ContinueFrom(Called(texts, ok), r)
  /\ UNCHANGED <<fs, fsOps, storeVars, runs, proc, srch, ck, pf, del, events, pending, mu, burst, tt, root>>

\* idx.cohere.EmbedDocuments(ctx, texts)
EmbCall(ok) ==
  /\ emb.pc = "call"
  /\ ok => CtxLive
  /\ LET r == IF mode = "index" THEN [run EXCEPT !.embedCalls = @ + 1] ELSE run
         texts == Texts(Batch(emb))
     IN IF ok
        THEN /\ emb' = [emb EXCEPT !.pc = "store", !.j = 1,
                          !.vecs = [k \in 1..Len(texts) |-> Embed(texts[k])]]
             /\ ContinueFrom(Called(texts, ok), r)
        ELSE /\ emb' = EmbIdle
             /\ FinishFrom(Called(texts, ok), "provider", r)
  /\ UNCHANGED <<fs, fsOps, storeVars, runs, proc, srch, ck, pf, del, events, pending, mu, burst, tt, root>>

\* the provider answers the batch without error with n vectors, fewer than
\* texts were sent (n = 0: an empty list that is not nil); embed and
\* EmbedDocuments hand the list on as it is
EmbCallShort(n) ==
  /\ emb.pc = "call"
  /\ CtxLive
  /\ n < Len(Texts(Batch(emb)))
  /\ LET r == IF mode = "index" THEN [run EXCEPT !.embedCalls = @ + 1] ELSE run
         texts == Texts(Batch(emb))
     IN /\ emb' = [emb EXCEPT !.pc = "store", !.j = 1,
                     !.vecs = [k \in 1..n |-> Embed(texts[k])]]
        /\ ContinueFrom(Called(texts, TRUE), r)
  /\ UNCHANGED <<fs, fsOps, storeVars, runs, proc, srch, ck, pf, del, events, pending, mu, burst, tt, root>>

\* embeddings[j] with j past the end of the list: the runtime panics with
\* "index out of range" and the process dies, whichever goroutine ran
EmbPanic ==
  /\ emb.pc = "store"
  /\ emb.j > Len(emb.vecs)
  /\ emb' = [emb EXCEPT !.pc = "panic"]
  /\ mode' = "off"
  /\ proc' = IF mode = "watch"
             THEN [proc EXCEPT !.main = "exited", !.ev = "done", !.swp = "done"]
             ELSE proc
  /\ hist' = [hist EXCEPT !.code = "panic",
                          !.last.result = IF @ = "running" THEN "panic" ELSE @]
  /\ UNCHANGED <<fs, fsOps, storeVars, runs, srch, ck, ix, pf, del, watchVars, run, tt, root>>

\* idx.db.InsertEmbedding(p.chunkID, embBytes)
EmbStore ==
  /\ emb.pc = "store"
  /\ emb.j <= Len(emb.vecs)
  /\ LET p == Batch(emb)[emb.j]
     IN IF \E v \in vec_chunks : v.chunk_id = p.chunkID
        THEN \* UNIQUE constraint failed: vec_chunks.chunk_id
             /\ emb' = EmbIdle
             /\ Finish("unique", run)
             /\ UNCHANGED <<vec_chunks, lastRowid>>
        ELSE /\ vec_chunks' = vec_chunks \cup {[chunk_id |-> p.chunkID, embedding |-> emb.vecs[emb.j],
                                               owner |-> p.owner]}
             /\ lastRowid' = p.chunkID
             /\ IF emb.j < Len(Batch(emb))
                THEN /\ emb' = [emb EXCEPT !.j = @ + 1]
                     /\ Continue(run)
                ELSE IF emb.i + batchSize > Len(emb.pending)
                     THEN /\ emb' = EmbIdle
                          /\ Finish("ok", run)
                     ELSE /\ emb' = [emb EXCEPT !.pc = "call", !.i = @ + batchSize,
                                                !.vecs = <<>>, !.j = 1]
                          /\ Continue(run)
  /\ UNCHANGED <<fs, fsOps, documents, chunks, runs, proc, srch, ck, pf, del, events, pending, mu, burst, tt, root>>

(***************************************************************************)
(* Indexer.Index (ofind -index [-full]).                                   *)
(***************************************************************************)
\* a walk that looks at the relative path as handleEvent does, not at the
\* directories it goes through
WalkVisibleTop(p) ==
  /\ ~isHiddenRelPath(p)
  /\ isMarkdownFile(BaseName(p))

WalkVisible(p) ==
  /\ ~isHiddenDir(root)
  /\ \A d \in DirComponents(p) : ~isHiddenDir(d)
  /\ isMarkdownFile(BaseName(p))

findMarkdownFiles ==
  SelectSeq(AllPaths, LAMBDA p : p \in Tree /\ fs[p].exists /\ WalkVisible(p))

\* needsIndexing comparing with "not before" instead of "after"
needsIndexingNotBefore(full, docs, mtime) ==
  \/ full
  \/ docs = {}
  \/ \E d \in docs : mtime >= d.modified_at

\* needsIndexing(relPath, fullReindex, doc), given the outcome of os.Stat
needsIndexing(full, docs, mtime) ==
  \/ full
  \/ docs = {}
  \/ \E d \in docs : mtime > d.modified_at

\* main starts, Index enumerates the notes and loads the documents
RunIndex(full, limit) ==
  /\ mode = "off"
  /\ runs < limit
  /\ runs' = runs + 1
  /\ proc' = proc
  /\ mode' = "index"
  /\ lastRowid' = 0
  /\ LET files == findMarkdownFiles
         gone == {d \in documents : d.path \notin Range(files)}
         ids == SortedSeq({d.id : d \in gone})
         f == [IxIdle EXCEPT !.pc = "del", !.full = full, !.files = files,
                 !.existing = documents, !.chunks0 = chunks,
                 !.after = hist.indexed,
                 !.retry = (hist.retry = "aborted" /\ hist.clean /\ ~full),
                 !.toDelete = [k \in 1..Len(ids) |->
                                 (CHOOSE d \in gone : d.id = ids[k]).path]]
     IN ix' = IxAfterDelete(f)
  /\ run' = RunIdle
  /\ hist' = [hist EXCEPT !.clean = TRUE, !.code = "none"]
  /\ UNCHANGED <<fs, fsOps, documents, chunks, vec_chunks, pf, emb, del, watchVars, srch, ck, tt, root>>

\* idx.db.DeleteDocument(doc.Path) for the next document that is gone
IndexDelete ==
  /\ ix.pc = "del"
  /\ del.pc = "idle"
  /\ del' = [DelIdle EXCEPT !.pc = "selDoc", !.path = Head(ix.toDelete)]
  /\ ix' = [ix EXCEPT !.toDelete = Tail(@)]
  /\ UNCHANGED <<fs, fsOps, storeVars, mode, runs, proc, srch, ck, pf, emb, watchVars, run, hist, tt, root>>

\* the loop over files that calls needsIndexing
IndexCheck ==
  /\ ix.pc = "check"
  /\ ix.i <= Len(ix.files)
  /\ LET f == ix.files[ix.i]
         docs == {d \in ix.existing : d.path = f}
         stats == ~ix.full /\ docs # {}
     IN IF stats /\ ~fs[f].exists
        THEN IndexReturn("err", run)
        ELSE /\ ix' = [ix EXCEPT !.i = @ + 1,
                         !.mt = @ \cup {<<f, IF stats THEN fs[f].mtime ELSE -1>>},
                         !.toIndex = IF needsIndexing(ix.full, docs, fs[f].mtime)
                                     THEN Append(@, f) ELSE @]
             /\ UNCHANGED <<mode, run, hist>>
  /\ UNCHANGED <<fs, fsOps, storeVars, runs, proc, srch, ck, pf, emb, del, watchVars, tt, root>>

\* if len(filesToIndex) == 0 { return nil }
IndexCheckDone ==
  /\ ix.pc = "check"
  /\ ix.i > Len(ix.files)
  /\ IF ix.toIndex = <<>>
     THEN IndexReturn("ok", run)
     ELSE /\ ix' = [ix EXCEPT !.pc = "parse", !.i = 1]
          /\ UNCHANGED <<mode, run, hist>>
  /\ UNCHANGED <<fs, fsOps, storeVars, runs, proc, srch, ck, pf, emb, del, watchVars, tt, root>>

\* Phase 1: idx.parseFile(filePath)
IndexParse ==
  /\ ix.pc = "parse"
  /\ pf.pc = "idle"
  /\ ix.i <= Len(ix.toIndex)
  /\ pf' = [PfIdle EXCEPT !.pc = "stat", !.path = ix.toIndex[ix.i]]
  /\ UNCHANGED <<fs, fsOps, storeVars, mode, runs, proc, srch, ck, ix, emb, del, watchVars, run, hist, tt, root>>

\* Phase 2: idx.embedPending(ctx, allPending, ...)
IndexParseDone ==
  /\ ix.pc = "parse"
  /\ pf.pc = "idle"
  /\ ix.i > Len(ix.toIndex)
  /\ IF ix.allPending = <<>>
     THEN /\ IndexReturn("ok", run)
          /\ emb' = emb
     ELSE /\ ix' = [ix EXCEPT !.pc = "embed"]
          /\ emb' = [EmbIdle EXCEPT !.pc = "call", !.pending = ix.allPending]
          /\ UNCHANGED <<mode, run, hist>>
  /\ UNCHANGED <<fs, fsOps, storeVars, runs, proc, srch, ck, pf, del, watchVars, tt, root>>

(***************************************************************************)
(* The watcher (ofind -watch).                                             *)
(***************************************************************************)
NoPending == [p \in Tree |-> -1]

\* burst[p].since:  seconds since the last create/write event for p was
\*                  handled (capped at debounceDelay), -1 when there is none
\* burst[p].n:      create/write events of the current burst, each less than
\*                  debounceDelay after the one before (2 stands for 2 or more)
\* burst[p].idx:    reindexes of p the sweep has selected since the burst began
\* burst[p].ok:     no delete/rename event since the burst began
\* burst[p].lastEv: the kind of the last event handled for p
\* burst[p].cut:    the last event handled for p was a delete/rename that
\*                  found p in the pending set
BurstNone == [since |-> -1, n |-> 0, idx |-> 0, ok |-> FALSE, lastEv |-> "none", cut |-> FALSE]

BurstWrite(b) ==
  IF b.since >= 0 /\ b.since < debounceDelay
  THEN [b EXCEPT !.since = 0, !.n = IF @ < 2 THEN @ + 1 ELSE @, !.lastEv = "write",
                 !.cut = FALSE]
  ELSE [since |-> 0, n |-> 1, idx |-> 0, ok |-> TRUE, lastEv |-> "write", cut |-> FALSE]

BurstRemove == [BurstNone EXCEPT !.lastEv = "remove"]

BurstCut(wasPending) == [BurstRemove EXCEPT !.cut = wasPending]

Older(age) == IF age >= 0 /\ age < debounceDelay THEN age + 1 ELSE age

\* now.Sub(timestamp) one second later; ages past debounceDelay + 1 are
\* not told apart
Aged(age) == IF age >= 0 /\ age <= debounceDelay THEN age + 1 ELSE age

\* a mutex that lets a task in while another holds it
LockFree == TRUE

\* w.mu.Lock() returns when no task holds the mutex
Lock == mu = "none"

\* a sweep that takes every entry of the pending set, whatever its age
DueEarly(age) == age >= 0

\* if now.Sub(timestamp) >= debounceDelay
Due(age) == age >= debounceDelay

\* delete(w.pending, relPath)
Forget(pend, relPath) == [pend EXCEPT ![relPath] = -1]

\* handleEvent dropping the event of a path that is being reindexed
RefreshBusy(pend, relPath) ==
  IF inflight[relPath] > 0 THEN pend ELSE [pend EXCEPT ![relPath] = 0]

\* handleEvent keeping the timestamp of a path that is already pending
RefreshKeep(pend, relPath) ==
  IF pend[relPath] >= 0 THEN pend ELSE [pend EXCEPT ![relPath] = 0]

\* w.pending[relPath] = time.Now()
Refresh(pend, relPath) == [pend EXCEPT ![relPath] = 0]

\* main starts, Watcher.Start launches processEvents and processPending;
\* runWatch calls Start once, and the process ends when Start returns
RunWatch ==
  /\ mode = "off"
  /\ runs = 0
  /\ runs' = runs + 1
  /\ proc' = ProcStarted
  /\ mode' = "watch"
  /\ lastRowid' = 0
  /\ UNCHANGED <<fs, fsOps, documents, chunks, vec_chunks, frameVars, watchVars, run, hist,
                 srch, ck, tt, root>>

\* the context is cancelled while both goroutines wait in their select
StopWatch ==
  /\ mode = "watch"
  /\ pf.pc = "idle" /\ emb.pc = "idle" /\ del.pc = "idle" /\ sw.pc = "idle"
  /\ mode' = "off"
  /\ proc' = ProcExited
  /\ events' = <<>>
  /\ pending' = NoPending
  /\ burst' = [p \in Tree |-> BurstNone]
  /\ UNCHANGED <<fs, fsOps, storeVars, runs, srch, ck, frameVars, mu, sw, inflight, run, hist, tt, root>>

\* SIGINT or SIGTERM arrives and runWatch's signal goroutine calls cancel()
Cancel ==
  /\ mode = "watch"
  /\ proc.ctx = "live"
  /\ proc' = [proc EXCEPT !.ctx = "cancelled"]
  /\ hist' = [hist EXCEPT !.last.atCancel = \E p \in Tree : inflight[p] > 0]
  /\ UNCHANGED <<fs, fsOps, storeVars, mode, runs, srch, ck, frameVars, watchVars, run, tt, root>>

\* processEvents is at its select and takes the case <-ctx.Done()
EventsReturn ==
  /\ mode = "watch"
  /\ proc.ctx = "cancelled"
  /\ proc.ev = "run"
  /\ del.pc = "idle"
  /\ proc' = [proc EXCEPT !.ev = "done"]
  /\ UNCHANGED <<fs, fsOps, storeVars, mode, runs, srch, ck, frameVars, watchVars, run, hist, tt, root>>

\* processPending is at its select and takes the case <-ctx.Done()
SweepReturn ==
  /\ mode = "watch"
  /\ proc.ctx = "cancelled"
  /\ proc.swp = "run"
  /\ sw.pc = "idle"
  /\ proc' = [proc EXCEPT !.swp = "done"]
  /\ UNCHANGED <<fs, fsOps, storeVars, mode, runs, srch, ck, frameVars, watchVars, run, hist, tt, root>>

\* Start returns from <-ctx.Done(), runWatch and main return and the
\* process ends, whatever its two goroutines are doing; Start waits for
\* neither of them and Watcher.Stop is not called
Exit ==
  /\ mode = "watch"
  /\ proc.ctx = "cancelled"
  /\ proc.main = "start"
  /\ mode' = "off"
  /\ proc' = [proc EXCEPT !.main = "exited", !.ev = "done", !.swp = "done"]
  /\ pf' = PfIdle /\ emb' = EmbIdle /\ del' = DelIdle /\ sw' = SwIdle
  /\ events' = <<>>
  /\ pending' = NoPending
  /\ mu' = "none"
  /\ inflight' = [p \in Tree |-> 0]
  /\ burst' = [p \in Tree |-> BurstNone]
  /\ UNCHANGED <<fs, fsOps, storeVars, runs, srch, ck, ix, run, hist, tt, root>>

\* time passes: every timestamp in the pending set gets one second older
Tick ==
  /\ mode = "watch"
  /\ \E p \in Tree : Aged(pending[p]) # pending[p] \/ Older(burst[p].since) # burst[p].since
  /\ pending' = [p \in Tree |-> Aged(pending[p])]
  /\ burst' = [p \in Tree |-> [burst[p] EXCEPT !.since = Older(@)]]
  /\ UNCHANGED <<fs, fsOps, storeVars, mode, runs, proc, srch, ck, frameVars, events, mu, sw, inflight,
                 run, hist, tt, root>>

\* handleEvent returns before it takes the mutex: the name does not end in
\* .md, or the path relative to the root begins with "."
Ignored(name, relPath) ==
  ~HasSuffix(LowerStr(name), <<".", "m", "d">>) \/ isHiddenRelPath(relPath)

\* processEvents receives an event and calls handleEvent
HandleEvent ==
  /\ mode = "watch"
  /\ proc.ev = "run"
  /\ events # <<>>
  /\ del.pc = "idle"
  /\ Lock
  /\ events' = Tail(events)
  /\ LET e == Head(events)
         relPath == e.name
     IN IF Ignored(e.name, relPath)
        THEN UNCHANGED <<pending, del, mu, burst>>
        ELSE IF e.op \in {"write", "create"}
             THEN /\ pending' = Refresh(pending, relPath)
                  /\ burst' = [burst EXCEPT ![relPath] = BurstWrite(@)]
                  /\ UNCHANGED <<del, mu>>
             ELSE /\ pending' = Forget(pending, relPath)
                  /\ burst' = [burst EXCEPT ![relPath] = BurstCut(pending[relPath] >= 0)]
                  /\ mu' = "ev"
                  /\ del' = [DelIdle EXCEPT !.pc = "selDoc", !.path = relPath]
  /\ UNCHANGED <<fs, fsOps, storeVars, mode, runs, proc, srch, ck, ix, pf, emb, sw, inflight, run, hist, tt, root>>

\* the orders in which the range over the map can yield a set of paths
Orders(S) == {s \in [1..Cardinality(S) -> S] : \A i, j \in 1..Cardinality(S) : s[i] = s[j] => i = j}

\* a sweep started for every tick, whether or not the last one has returned
SweepAlways == TRUE

\* the ticker case of processPending is taken when the goroutine is at its select
SweepReady == sw.pc = "idle"

\* the ticker fires and indexPendingFiles takes w.mu
SweepLock ==
  /\ mode = "watch"
  /\ proc.swp = "run"
  /\ SweepReady
  /\ Lock
  /\ mu' = "sw"
  /\ sw' = [SwIdle EXCEPT !.pc = "locked"]
  /\ UNCHANGED <<fs, fsOps, storeVars, mode, runs, proc, srch, ck, frameVars, events, pending,
                 inflight, burst, run, hist, tt, root>>

\* the section that leaves the paths it has selected in the pending set
TakeDueKeep(pend, due) == pend

\* for _, path := range toIndex { delete(w.pending, path) }
TakeDue(pend, due) == [p \in Tree |-> IF p \in due THEN -1 ELSE pend[p]]

\* indexPendingFiles: the section under w.mu, up to w.mu.Unlock()
IndexPendingFiles ==
  /\ sw.pc = "locked"
  /\ LET due == {p \in Tree : Due(pending[p])}
     IN /\ \E order \in Orders(due) :
             sw' = SwAfter([pc |-> "loop", toIndex |-> order, cur |-> <<>>])
        /\ pending' = TakeDue(pending, due)
        /\ burst' = [p \in Tree |-> IF p \in due
                                     THEN [burst[p] EXCEPT !.idx = IF @ < 2 THEN @ + 1 ELSE @]
                                     ELSE burst[p]]
  /\ mu' = "none"
  /\ UNCHANGED <<fs, fsOps, storeVars, mode, runs, proc, srch, ck, frameVars, events, inflight,
                 run, hist, tt, root>>

\* indexPendingFiles: w.indexer.indexFile(ctx, relPath) for the next path
IndexFile ==
  /\ sw.pc = "loop"
  /\ sw.cur = <<>>
  /\ sw.toIndex # <<>>
  /\ sw' = [sw EXCEPT !.cur = Head(sw.toIndex), !.toIndex = Tail(@)]
  /\ inflight' = [inflight EXCEPT ![Head(sw.toIndex)] = @ + 1]
  /\ pf' = [PfIdle EXCEPT !.pc = "stat", !.path = Head(sw.toIndex)]
  /\ hist' = [hist EXCEPT !.last = NoLast]
  /\ UNCHANGED <<fs, fsOps, storeVars, mode, runs, proc, srch, ck, ix, emb, del, events, pending, mu,
                 burst, run, tt, root>>

(***************************************************************************)
(* The specification.                                                      *)
(***************************************************************************)
(***************************************************************************)
(* Searcher.Search.  A chunk's text stands for the columns heading,        *)
(* content, start_line and end_line, which travel together from            *)
(* InsertChunk to the Result.  Distances and scores are in tenths.         *)
(***************************************************************************)
\* the relevance scores the reranker may give
Scores == {5, 9}

\* the responses of the rerank endpoint: at most MaxRerank entries, each an
\* index into the documents sent (from 0) and a score
RerankEntries == [index : 0..(MaxCands - 1), score : Scores]
RerankResponses == UNION {[1..n -> RerankEntries] : n \in 0..MaxRerank}

\* a store as indexing leaves it: n embedded chunks of two notes
StoreDocuments(n) ==
  IF n = 0 THEN {}
  ELSE {[id |-> 1, path |-> pathA, modified_at |-> 0],
        [id |-> 2, path |-> pathB, modified_at |-> 0]}

StoreChunks(n) ==
  {[id |-> k, doc_id |-> (k % 2) + 1, text |-> <<n, k>>,
    owner |-> IF k % 2 = 0 THEN pathA ELSE pathB] : k \in 1..n}

StoreVecChunks(n) ==
  {[chunk_id |-> c.id, embedding |-> Embed(c.text), owner |-> c.owner]
   : c \in StoreChunks(n)}

\* rows.Scan of SearchSimilar: the row at position i of the distance order
ChunkWithScore(row, i) ==
  [ID |-> row.chunk_id, Distance |-> i, DocID |-> row.doc_id,
   Text |-> row.text, Path |-> row.path]

\* a Result whose score is the candidate's vector distance
MakeResultDistance(i, rr, cands) ==
  LET c == cands[rr.index + 1]
  IN [Rank |-> i + 1, Score |-> c.Distance, Path |-> c.Path, Text |-> c.Text,
      DocID |-> c.DocID, ChunkID |-> c.ID]

\* Result{...} built in the loop over rerankResults, i counted from 0
MakeResult(i, rr, cands) ==
  LET c == cands[rr.index + 1]
  IN [Rank |-> i + 1, Score |-> rr.score, Path |-> c.Path, Text |-> c.Text,
      DocID |-> c.DocID, ChunkID |-> c.ID]

SrchReturn(f, err) == [f EXCEPT !.pc = "done", !.err = err]

\* a failure swallowed: Search returns no results and no error
SearchFailSilent(f, err, cause, fault) ==
  [f EXCEPT !.pc = "done", !.fault = fault]

\* return nil, fmt.Errorf("<err>: %w", cause)
SearchFail(f, err, cause, fault) ==
  [SrchReturn(f, err) EXCEPT !.cause = cause, !.fault = fault]

\* main starts with a query, runSearch calls Search
RunSearch ==
  /\ mode = "off"
  /\ runs < MaxRuns
  /\ runs' = runs + 1
  /\ proc' = proc
  /\ mode' = "search"
  /\ lastRowid' = 0
  /\ srch' = [SrchIdle EXCEPT !.pc = "embed"]
  /\ UNCHANGED <<fs, fsOps, documents, chunks, vec_chunks, frameVars, watchVars, run, hist, ck, tt, root>>

\* what the embed endpoint may answer to the query: an error, a response
\* without a float embedding list, an empty list, or one embedding
EmbedAnswers == {"error", "nil", "empty", "ok"}

\* Client.EmbedQuery: the error it returns for an answer ("none": no error)
EmbedQueryErr(answer) ==
  CASE answer = "error" -> "embed query failed"
    [] answer = "nil" -> "no embedding returned"
    [] answer = "empty" -> "no embedding returned"
    [] OTHER -> "none"

\* s.cohere.EmbedQuery
EmbedQuery(answer) ==
  /\ srch.pc = "embed"
  /\ LET f == [srch EXCEPT !.calls = @ \o <<"EmbedQuery", "V2.Embed">>]
     IN srch' = IF EmbedQueryErr(answer) = "none"
                THEN [f EXCEPT !.pc = "similar"]
                ELSE SearchFail(f, "failed to embed query", EmbedQueryErr(answer),
                                IF answer = "error" THEN "embed" ELSE "no embedding")
  /\ UNCHANGED <<fs, fsOps, storeVars, mode, runs, proc, frameVars, watchVars, run, hist, ck, tt, root>>

\* Search going on to the reranker whatever the candidates
AfterSimilarRerank(f, cands) == [f EXCEPT !.pc = "rerank", !.candidates = cands]

\* if len(candidates) == 0 { return nil, nil }
AfterSimilar(f, cands) ==
  IF Len(cands) = 0
  THEN SrchReturn(f, "none")
  ELSE [f EXCEPT !.pc = "rerank", !.candidates = cands]

\* s.db.SearchSimilar and the empty-candidates return
SearchSimilarStep(ok) ==
  /\ srch.pc = "similar"
  /\ IF ok
     THEN \E ord \in Orders(SearchSimilar) :
            LET n == IF Cardinality(SearchSimilar) < vectorSearchLimit
                     THEN Cardinality(SearchSimilar) ELSE vectorSearchLimit
                cands == [i \in 1..n |-> ChunkWithScore(ord[i], i)]
            IN srch' = AfterSimilar(srch, cands)
     ELSE srch' = SearchFail(srch, "vector search failed", "query failed", "vector search")
  /\ UNCHANGED <<fs, fsOps, storeVars, mode, runs, proc, frameVars, watchVars, run, hist, ck, tt, root>>

\* s.cohere.Rerank and the loop that builds the results; Client.Rerank
\* answers an empty document list itself, without a request
Rerank(ok) ==
  /\ srch.pc = "rerank"
  /\ LET n == Len(srch.candidates)
         f == [srch EXCEPT !.calls = @ \o (IF n = 0 THEN <<"Rerank">>
                                           ELSE <<"Rerank", "V2.Rerank">>)]
     IN IF n = 0
        THEN srch' = [f EXCEPT !.pc = "done"]
        ELSE IF ok
        THEN \E resp \in RerankResponses :
               srch' = IF \E i \in 1..Len(resp) : resp[i].index >= n
                       THEN [f EXCEPT !.pc = "panic", !.rerankResults = resp]
                       ELSE [f EXCEPT !.pc = "done", !.rerankResults = resp,
                               !.results = [i \in 1..Len(resp) |->
                                              MakeResult(i - 1, resp[i], srch.candidates)]]
        ELSE srch' = SearchFail(f, "rerank failed", "rerank request failed", "rerank")
  /\ UNCHANGED <<fs, fsOps, storeVars, mode, runs, proc, frameVars, watchVars, run, hist, ck, tt, root>>

\* the process prints the results, or the error, and exits
SearchExit ==
  /\ srch.pc \in {"done", "panic"}
  /\ mode' = "off"
  /\ srch' = SrchIdle
  /\ UNCHANGED <<fs, fsOps, storeVars, runs, proc, frameVars, watchVars, run, hist, ck, tt, root>>

(***************************************************************************)
(* chunkMarkdown.  A line is [level, len, solid]: level is the number of   *)
(* '#' headingRegex matches (0: no match), len its length in bytes, solid  *)
(* whether it holds a non-space character (a solid line has no space at    *)
(* either end, a line that is not solid is all spaces).  A heading's text  *)
(* is the number of its line, so the headings of a text are distinct.  A   *)
(* buffer and a chunk's content are sequences of line numbers.             *)
(***************************************************************************)
HeadingLine(level) == [level |-> level, len |-> level + 2, solid |-> TRUE]

BodyLine(n) == [level |-> 0, len |-> n, solid |-> TRUE]

BlankLine == [level |-> 0, len |-> 0, solid |-> FALSE]

\* the lengths of the paragraph lines
BodyLens == {2, 25, 1000, 2000}

HeadingLines == {HeadingLine(l) : l \in 1..MaxLevel}

\* strings.TrimSpace(currentChunk.String())
TrimSpace(lines, buf) ==
  LET S == {i \in 1..Len(buf) : lines[buf[i]].solid}
  IN IF S = {} THEN <<>> ELSE SubSeq(buf, MinOf(S), MaxOf(S))

\* bytes written to currentChunk for the lines of buf: each line and "\n"
RECURSIVE WrittenLen(_, _)
WrittenLen(lines, buf) ==
  IF buf = <<>> THEN 0
  ELSE lines[Head(buf)].len + 1 + WrittenLen(lines, Tail(buf))

\* len(text) of a trimmed text
TextLen(lines, text) == IF text = <<>> THEN 0 ELSE WrittenLen(lines, text) - 1

\* strings.Join(headingStack, " > ")
Join(stack) ==
  [i \in 1..(IF stack = <<>> THEN 0 ELSE 2 * Len(stack) - 1) |->
     IF i % 2 = 1 THEN stack[(i + 1) \div 2] ELSE " > "]

CkStart == [pc |-> "loop", lines |-> <<>>, chunks |-> <<>>, currentChunk |-> <<>>,
            size |-> 0, currentHeading |-> <<>>, headingStack |-> <<>>,
            startLine |-> 1, currentLine |-> 1, flushed |-> <<>>]

\* flushChunk leaving startLine as it is
flushChunkKeepStart(c, why) ==
  LET text == TrimSpace(c.lines, c.currentChunk)
      keep == text # <<>> /\ TextLen(c.lines, text) > minChunkLen
      chunk == [Content |-> text, StartLine |-> c.startLine,
                EndLine |-> c.currentLine - 1, Heading |-> c.currentHeading,
                Buf |-> c.currentChunk]
  IN [c EXCEPT !.chunks = IF keep THEN Append(@, chunk) ELSE @,
               !.currentChunk = <<>>, !.size = 0,
               !.flushed = Append(@, [buf |-> c.currentChunk, why |-> why])]

\* flushChunk keeping every non-empty trimmed buffer
flushChunkNoFloor(c, why) ==
  LET text == TrimSpace(c.lines, c.currentChunk)
      chunk == [Content |-> text, StartLine |-> c.startLine,
                EndLine |-> c.currentLine - 1, Heading |-> c.currentHeading,
                Buf |-> c.currentChunk]
  IN [c EXCEPT !.chunks = IF text # <<>> THEN Append(@, chunk) ELSE @,
               !.currentChunk = <<>>, !.size = 0,
               !.startLine = c.currentLine,
               !.flushed = Append(@, [buf |-> c.currentChunk, why |-> why])]

\* flushChunk leaving the buffer as it is
flushChunkNoReset(c, why) ==
  LET text == TrimSpace(c.lines, c.currentChunk)
      keep == text # <<>> /\ TextLen(c.lines, text) > minChunkLen
      chunk == [Content |-> text, StartLine |-> c.startLine,
                EndLine |-> c.currentLine - 1, Heading |-> c.currentHeading,
                Buf |-> c.currentChunk]
  IN [c EXCEPT !.chunks = IF keep THEN Append(@, chunk) ELSE @,
               !.startLine = c.currentLine,
               !.flushed = Append(@, [buf |-> c.currentChunk, why |-> why])]

\* flushChunk; flushed is history: the buffers flushed and why
flushChunk(c, why) ==
  LET text == TrimSpace(c.lines, c.currentChunk)
      keep == text # <<>> /\ TextLen(c.lines, text) > minChunkLen
      chunk == [Content |-> text, StartLine |-> c.startLine,
                EndLine |-> c.currentLine - 1, Heading |-> c.currentHeading,
                Buf |-> c.currentChunk]
  IN [c EXCEPT !.chunks = IF keep THEN Append(@, chunk) ELSE @,
               !.currentChunk = <<>>, !.size = 0,
               !.startLine = c.currentLine,
               !.flushed = Append(@, [buf |-> c.currentChunk, why |-> why])]

\* the pop loop stopping one entry early
PopToShallow(stack, level) ==
  SubSeq(stack, 1, IF Len(stack) > level THEN level ELSE Len(stack))

\* for len(headingStack) >= level { pop }
PopTo(stack, level) ==
  SubSeq(stack, 1, IF Len(stack) >= level THEN level - 1 ELSE Len(stack))

\* the heading branch setting the breadcrumb before it flushes
HeadingBranchEarly(c, level) ==
  LET stack == Append(PopTo(c.headingStack, level), c.currentLine)
      f == flushChunk([c EXCEPT !.headingStack = stack,
                                !.currentHeading = Join(stack)], "heading")
  IN [f EXCEPT !.startLine = c.currentLine]

\* the branch of the loop taken when headingRegex matches the line
HeadingBranch(c, level) ==
  LET f == flushChunk(c, "heading")
      stack == Append(PopTo(f.headingStack, level), c.currentLine)
  IN [f EXCEPT !.headingStack = stack, !.currentHeading = Join(stack),
               !.startLine = c.currentLine]

\* an iteration of the loop that tests the size budget before it appends
ChunkLineBudgetFirst(c, line) ==
  LET c0 == [c EXCEPT !.lines = Append(@, line)]
      c1 == IF line.level > 0 THEN HeadingBranch(c0, line.level) ELSE c0
      c2 == IF c1.size > maxChunkTokens * avgCharsPerToken
            THEN flushChunk(c1, "size") ELSE c1
  IN [c2 EXCEPT !.currentChunk = Append(@, c.currentLine),
                !.size = @ + line.len + 1,
                !.currentLine = @ + 1]

\* an iteration of the loop without the size-budget flush
ChunkLineNoBudget(c, line) ==
  LET c0 == [c EXCEPT !.lines = Append(@, line)]
      c1 == IF line.level > 0 THEN HeadingBranch(c0, line.level) ELSE c0
  IN [c1 EXCEPT !.currentChunk = Append(@, c.currentLine),
                !.size = @ + line.len + 1,
                !.currentLine = @ + 1]

\* one iteration of the loop over the lines
ChunkLine(c, line) ==
  LET c0 == [c EXCEPT !.lines = Append(@, line)]
      c1 == IF line.level > 0 THEN HeadingBranch(c0, line.level) ELSE c0
      c2 == [c1 EXCEPT !.currentChunk = Append(@, c.currentLine),
                       !.size = @ + line.len + 1]
      c3 == IF c2.size > maxChunkTokens * avgCharsPerToken
            THEN flushChunk(c2, "size") ELSE c2
  IN [c3 EXCEPT !.currentLine = @ + 1]

\* the loop reads the next line of the text
ReadLine(line, limit) ==
  /\ ck.pc = "loop"
  /\ Len(ck.lines) < limit
  /\ ck' = ChunkLine(ck, line)
  /\ UNCHANGED <<fs, fsOps, storeVars, mode, runs, proc, frameVars, watchVars, run, hist, srch, tt, root>>

\* the text has no further line (strings.Split yields at least one):
\* the last flushChunk and the return
ChunkReturn ==
  /\ ck.pc = "loop"
  /\ Len(ck.lines) >= 1
  /\ ck' = [flushChunk(ck, "end") EXCEPT !.pc = "done"]
  /\ UNCHANGED <<fs, fsOps, storeVars, mode, runs, proc, frameVars, watchVars, run, hist, srch, tt, root>>

(***************************************************************************)
(* extractTitle.  A line of the text is [chars, pad]: the bytes chars      *)
(* followed by pad further bytes "x", so that a line longer than the       *)
(* scanner's buffer needs no sequence of that length.  A title is a line   *)
(* or a file name, in the same form.                                       *)
(***************************************************************************)
\* bufio.MaxScanTokenSize, the buffer limit of bufio.NewScanner
MaxScanTokenSize == 65536

TitleChars == {"#", " ", "x"}

\* sequences over S of length n
SeqsOfLen(S, n) == [1..n -> S]

\* the lines a text is drawn from: short lines, and lines at the limit
TitleLineSet ==
  LET texts == UNION {SeqsOfLen(TitleChars, n) : n \in 0..MaxTitleChars}
  IN {[chars |-> t, pad |-> 0] : t \in texts}
     \cup {[chars |-> t, pad |-> MaxScanTokenSize - 1] : t \in SeqsOfLen(TitleChars, 1)}
     \cup {[chars |-> <<>>, pad |-> MaxScanTokenSize - 1]}

LineLen(line) == Len(line.chars) + line.pad

\* strings.TrimSpace of a line
TrimLine(line) ==
  LET solid == {i \in 1..Len(line.chars) : line.chars[i] # " "}
      last == IF line.pad > 0 THEN Len(line.chars) ELSE MaxOf(solid)
  IN IF solid = {} /\ line.pad = 0 THEN [chars |-> <<>>, pad |-> 0]
     ELSE IF solid = {}
     THEN [chars |-> <<>>, pad |-> line.pad]
     ELSE [chars |-> SubSeq(line.chars, MinOf(solid), last), pad |-> line.pad]

\* strings.HasPrefix(line, "# ")
HasMarker(line) == HasPrefix(line.chars, <<"#", " ">>)

\* strings.TrimPrefix(line, "# ")
TrimMarker(line) ==
  IF HasMarker(line) THEN [line EXCEPT !.chars = SubSeq(@, 3, Len(@))] ELSE line

\* filepath.Ext: the suffix of the name that begins at its last dot
Ext(name) ==
  LET dots == {i \in 1..Len(name) : name[i] = "."}
  IN IF dots = {} THEN <<>> ELSE SubSeq(name, MaxOf(dots), Len(name))

\* strings.TrimSuffix(base, filepath.Ext(base)) of filepath.Base(relPath)
FileTitle(relPath) ==
  LET base == BaseName(relPath)
  IN [chars |-> SubSeq(base, 1, Len(base) - Len(Ext(base))), pad |-> 0]

\* a scanner that splits lines of any length
ScanAny(content, next) == next <= Len(content)

\* scanner.Scan(): there is a further line and it fits the buffer
Scan(content, next) ==
  next <= Len(content) /\ LineLen(content[next]) < MaxScanTokenSize

TtIdle == [pc |-> "idle", content |-> <<>>, relPath |-> <<>>, next |-> 1,
           title |-> [chars |-> <<>>, pad |-> 0]]

\* one iteration of the loop of extractTitle, or the fallback after it
ExtractTitle ==
  /\ tt.pc = "scan"
  /\ IF Scan(tt.content, tt.next)
     THEN LET line == TrimLine(tt.content[tt.next])
          IN IF HasMarker(line)
             THEN tt' = [tt EXCEPT !.pc = "done", !.title = TrimMarker(line)]
             ELSE tt' = [tt EXCEPT !.next = @ + 1]
     ELSE tt' = [tt EXCEPT !.pc = "done", !.title = FileTitle(tt.relPath)]
  /\ UNCHANGED <<fs, fsOps, storeVars, mode, runs, proc, frameVars, watchVars, run, hist,
                 srch, ck, root>>

\* the texts extractTitle is given
TitleTexts == UNION {SeqsOfLen(TitleLineSet, n) : n \in 1..MaxTitleLines}

\* parseFile calls extractTitle(content, relPath)
CallTitle ==
  /\ tt.pc = "idle"
  /\ \E content \in TitleTexts, relPath \in Paths :
       tt' = [TtIdle EXCEPT !.pc = "scan", !.content = content, !.relPath = relPath]
  /\ UNCHANGED <<fs, fsOps, storeVars, mode, runs, proc, frameVars, watchVars, run, hist,
                 srch, ck, root>>

\* no process running, over a store of n embedded chunks
InitStore(n) ==
  /\ fs = [p \in NotePaths |-> NoFile]
  /\ documents = StoreDocuments(n)
  /\ chunks = StoreChunks(n)
  /\ vec_chunks = StoreVecChunks(n)
  /\ lastRowid = 0
  /\ mode = "off"
  /\ runs = 0
  /\ fsOps = 0
  /\ ix = IxIdle
  /\ pf = PfIdle
  /\ emb = EmbIdle
  /\ del = DelIdle
  /\ events = <<>>
  /\ pending = NoPending
  /\ mu = "none"
  /\ sw = SwIdle
  /\ inflight = [p \in Tree |-> 0]
  /\ burst = [p \in Tree |-> BurstNone]
  /\ run = RunIdle
  /\ hist = [clean |-> FALSE, indexed |-> FALSE, retry |-> "none", had |-> {},
            fault |-> FALSE, last |-> NoLast, code |-> "none"]
  /\ proc = ProcNone
  /\ srch = SrchIdle
  /\ ck = CkStart
  /\ tt = TtIdle
  /\ root = rootName

\* a new database and an empty note tree
Init == InitStore(0)

\* the steps of the store's and the indexer's call frames
FrameStep ==
  \/ DelSelDoc
  \/ DelSelChunks
  \/ DelVec
  \/ DelChunks
  \/ DelDoc
  \/ DelFail
  \/ PfStat
  \/ PfRead
  \/ PfUpsert
  \/ PfSelChunks
  \/ PfDelVec
  \/ PfDelChunks
  \/ PfDelFail
  \/ PfInsert
  \/ \E ok \in BOOLEAN : EmbCall(ok)
  \/ EmbStore

\* ofind -index run any number of times over a changing note tree
NextIndex ==
  \/ \E p \in NotePaths, c \in Contents, m \in 0..MaxMtime : FsWrite(p, c, m, MaxFsOps)
  \/ \E p \in NotePaths : FsRemove(p, MaxFsOps)
  \/ \E full \in BOOLEAN : RunIndex(full, MaxRuns)
  \/ IndexDelete
  \/ IndexCheck
  \/ IndexCheckDone
  \/ IndexParse
  \/ IndexParseDone
  \/ FrameStep

SpecIndex == Init /\ [][NextIndex]_vars

\* ofind -index run again and again over a tree of one note
NextReindex ==
  \/ \E c \in Contents, m \in 0..MaxMtime : FsWrite(pathA, c, m, MaxFsOps)
  \/ FsRemove(pathA, MaxFsOps)
  \/ \E full \in BOOLEAN : RunIndex(full, MaxPasses)
  \/ IndexDelete
  \/ IndexCheck
  \/ IndexCheckDone
  \/ IndexParse
  \/ IndexParseDone
  \/ FrameStep

SpecReindex == Init /\ [][NextReindex]_vars

\* ofind -index run twice over a tree of two notes
NextTwice ==
  \/ \E p \in WatchPaths, c \in Contents, m \in 0..MaxMtime : FsWrite(p, c, m, MaxEdits)
  \/ \E p \in WatchPaths : FsRemove(p, MaxEdits)
  \/ \E full \in BOOLEAN : RunIndex(full, MaxRuns)
  \/ IndexDelete
  \/ IndexCheck
  \/ IndexCheckDone
  \/ IndexParse
  \/ IndexParseDone
  \/ FrameStep

SpecTwice == Init /\ [][NextTwice]_vars

\* a new database and a tree of two notes
InitTree ==
  \E ca, cb \in Contents :
    /\ documents = {} /\ chunks = {} /\ vec_chunks = {} /\ lastRowid = 0
    /\ fs = [p \in NotePaths |->
               IF p = pathA THEN [exists |-> TRUE, mtime |-> 0, content |-> ca]
               ELSE IF p = pathB THEN [exists |-> TRUE, mtime |-> 0, content |-> cb]
               ELSE NoFile]
    /\ mode = "off" /\ runs = 0 /\ fsOps = 0
    /\ ix = IxIdle /\ pf = PfIdle /\ emb = EmbIdle /\ del = DelIdle
    /\ events = <<>> /\ pending = NoPending /\ mu = "none" /\ sw = SwIdle
    /\ inflight = [p \in Tree |-> 0]
    /\ burst = [p \in Tree |-> BurstNone]
    /\ run = RunIdle
    /\ hist = [clean |-> FALSE, indexed |-> FALSE, retry |-> "none", had |-> {},
               fault |-> FALSE, last |-> NoLast, code |-> "none"]
    /\ proc = ProcNone
    /\ srch = SrchIdle
    /\ ck = CkStart
    /\ tt = TtIdle
    /\ root = rootName

\* ofind -index run over a tree of two notes that are rewritten and removed
NextAbort ==
  \/ \E p \in WatchPaths, c \in Contents : FsWrite(p, c, 0, MaxTreeOps)
  \/ \E p \in WatchPaths : FsRemove(p, MaxTreeOps)
  \/ \E full \in BOOLEAN : RunIndex(full, MaxRuns)
  \/ IndexDelete
  \/ IndexCheck
  \/ IndexCheckDone
  \/ IndexParse
  \/ IndexParseDone
  \/ FrameStep

SpecAbort == InitTree /\ [][NextAbort]_vars

\* the names a root directory may have: plain or beginning with a dot
RootNames == {rootName, <<".", "v">>}

\* an indexed tree of two notes under a root directory of either kind
InitRoot ==
  \E r \in RootNames, n \in 1..2 :
    /\ root = r
    /\ documents = StoreDocuments(n)
    /\ chunks = StoreChunks(n)
    /\ vec_chunks = StoreVecChunks(n)
    /\ lastRowid = 0
    /\ fs = [p \in NotePaths |->
               IF p \in WatchPaths THEN [exists |-> TRUE, mtime |-> 0, content |-> 1]
               ELSE NoFile]
    /\ mode = "off" /\ runs = 0 /\ fsOps = 0
    /\ ix = IxIdle /\ pf = PfIdle /\ emb = EmbIdle /\ del = DelIdle
    /\ events = <<>> /\ pending = NoPending /\ mu = "none" /\ sw = SwIdle
    /\ inflight = [p \in Tree |-> 0]
    /\ burst = [p \in Tree |-> BurstNone]
    /\ run = RunIdle
    /\ hist = [clean |-> FALSE, indexed |-> FALSE, retry |-> "none", had |-> {},
               fault |-> FALSE, last |-> NoLast, code |-> "none"]
    /\ proc = ProcNone
    /\ srch = SrchIdle
    /\ ck = CkStart
    /\ tt = TtIdle

\* ofind -index run over the tree, whose notes are rewritten and removed
SpecRoot == InitRoot /\ [][NextAbort]_vars

\* ofind -watch over a changing note tree
NextWatch ==
  \/ \E p \in WatchPaths, c \in Contents : FsWrite(p, c, 0, MaxWatchOps)
  \/ \E p \in WatchPaths : FsRemove(p, MaxWatchOps)
  \/ RunWatch
  \/ StopWatch
  \/ Tick
  \/ HandleEvent
  \/ SweepLock
  \/ IndexPendingFiles
  \/ IndexFile
  \/ FrameStep

SpecWatch == Init /\ [][NextWatch]_vars

\* the notes were indexed, then the query is asked
InitSearch == \E n \in 0..MaxCands : InitStore(n)

\* ofind with a query, run over an indexed store
NextSearch ==
  \/ RunSearch
  \/ \E answer \in EmbedAnswers : EmbedQuery(answer)
  \/ \E ok \in BOOLEAN : SearchSimilarStep(ok)
  \/ \E ok \in BOOLEAN : Rerank(ok)
  \/ SearchExit

SpecSearch == InitSearch /\ [][NextSearch]_vars

\* a store in which note a.md is not indexed (old = 0) or is indexed with
\* one embedded chunk (old = 1)
OldDocuments(old) ==
  IF old = 0 THEN {} ELSE {[id |-> 1, path |-> pathA, modified_at |-> 0]}

OldChunks(old) ==
  IF old = 0 THEN {}
  ELSE {[id |-> 1, doc_id |-> 1, text |-> <<1, 1>>, owner |-> pathA]}

OldVecChunks(old) ==
  {[chunk_id |-> c.id, embedding |-> Embed(c.text), owner |-> c.owner]
   : c \in OldChunks(old)}

\* the watcher's sweep has selected a.md, a note of c chunks, and is about
\* to call indexFile; the connection has inserted nothing (rowid 0) or the
\* rows of the store
InitEmbed ==
  \E c \in 0..MaxRowid, m \in 0..MaxMtime, old \in 0..1, rowid \in 0..1 :
    /\ rowid <= old
    /\ fs = [p \in NotePaths |-> IF p = pathA
                              THEN [exists |-> TRUE, mtime |-> m, content |-> c]
                              ELSE NoFile]
    /\ documents = OldDocuments(old)
    /\ chunks = OldChunks(old)
    /\ vec_chunks = OldVecChunks(old)
    /\ lastRowid = rowid
    /\ mode = "watch"
    /\ runs = 1
    /\ fsOps = 1
    /\ ix = IxIdle
    /\ pf = PfIdle
    /\ emb = EmbIdle
    /\ del = DelIdle
    /\ events = <<>>
    /\ pending = NoPending
    /\ mu = "none"
    /\ sw = [pc |-> "loop", toIndex |-> <<pathA>>, cur |-> <<>>]
    /\ inflight = [p \in Tree |-> 0]
    /\ burst = [p \in Tree |-> IF p = pathA
                                 THEN [since |-> debounceDelay, n |-> 1, idx |-> 1,
                                       ok |-> TRUE, lastEv |-> "write", cut |-> FALSE]
                                 ELSE BurstNone]
    /\ run = RunIdle
    /\ hist = [clean |-> FALSE, indexed |-> FALSE, retry |-> "none", had |-> {},
               fault |-> FALSE, last |-> NoLast, code |-> "none"]
    /\ proc = ProcStarted
    /\ srch = SrchIdle
    /\ ck = CkStart
    /\ tt = TtIdle
    /\ root = rootName

\* one indexFile call of the watcher: parseFile, then embedPending
NextEmbed ==
  \/ IndexFile
  \/ PfStat
  \/ PfRead
  \/ PfUpsert
  \/ PfSelChunks
  \/ PfDelVec
  \/ PfDelChunks
  \/ PfDelFail
  \/ PfInsert
  \/ \E ok \in BOOLEAN : EmbCall(ok)
  \/ EmbStore

SpecEmbed == InitEmbed /\ [][NextEmbed]_vars

\* one indexFile call with a provider that may answer with too few vectors
NextShort ==
  \/ NextEmbed
  \/ \E n \in 0..(batchSize - 1) : EmbCallShort(n)
  \/ EmbPanic

SpecShort == InitEmbed /\ [][NextShort]_vars

\* ofind -watch with a reindex of a.md about to start, while a.md is
\* rewritten and the two tasks go on
NextRace ==
  \/ NextEmbed
  \/ \E c \in Contents : FsWrite(pathA, c, 0, MaxEdits)
  \/ HandleEvent
  \/ Tick
  \/ SweepLock
  \/ IndexPendingFiles

SpecRace == InitEmbed /\ [][NextRace]_vars

\* time passes, and processEvents, processPending and the calls they make
\* are scheduled as long as the context is live
FairRace ==
  /\ SpecRace
  /\ WF_vars(NextEmbed)
  /\ WF_vars(HandleEvent)
  /\ WF_vars(Tick)
  /\ WF_vars(SweepLock)
  /\ WF_vars(IndexPendingFiles)

\* ofind -watch with a reindex of a.md about to start, and the signal
NextCancel ==
  \/ NextEmbed
  \/ Cancel
  \/ EventsReturn
  \/ SweepReturn
  \/ Exit

SpecCancel == InitEmbed /\ [][NextCancel]_vars

\* the goroutines of the process are scheduled and the process, once main
\* has returned, exits; when the signal comes is up to the user
FairCancel ==
  /\ SpecCancel
  /\ WF_vars(NextEmbed)
  /\ WF_vars(EventsReturn)
  /\ WF_vars(SweepReturn)
  /\ WF_vars(Exit)

\* a new database and any tree of files under the root
InitWalk ==
  \E S \in SUBSET Paths :
    /\ documents = {} /\ chunks = {} /\ vec_chunks = {} /\ lastRowid = 0
    /\ fs = [p \in Paths |-> IF p \in S THEN [exists |-> TRUE, mtime |-> 0, content |-> 0]
                                         ELSE NoFile]
    /\ mode = "off" /\ runs = 0 /\ fsOps = 0
    /\ ix = IxIdle /\ pf = PfIdle /\ emb = EmbIdle /\ del = DelIdle
    /\ events = <<>> /\ pending = NoPending /\ mu = "none" /\ sw = SwIdle
    /\ inflight = [p \in Tree |-> 0]
    /\ burst = [p \in Tree |-> BurstNone]
    /\ run = RunIdle
    /\ hist = [clean |-> FALSE, indexed |-> FALSE, retry |-> "none", had |-> {},
               fault |-> FALSE, last |-> NoLast, code |-> "none"]
    /\ proc = ProcNone
    /\ srch = SrchIdle
    /\ ck = CkStart
    /\ tt = TtIdle
    /\ root = rootName

\* Index enumerates the tree
NextWalk == \E full \in BOOLEAN : RunIndex(full, MaxRuns)

SpecWalk == InitWalk /\ [][NextWalk]_vars

\* ofind -watch has started on an empty tree and a new database
InitFilter ==
  /\ documents = {} /\ chunks = {} /\ vec_chunks = {} /\ lastRowid = 0
  /\ fs = [p \in Paths |-> NoFile]
  /\ mode = "watch" /\ runs = 1 /\ fsOps = 0
  /\ ix = IxIdle /\ pf = PfIdle /\ emb = EmbIdle /\ del = DelIdle
  /\ events = <<>> /\ pending = NoPending /\ mu = "none" /\ sw = SwIdle
  /\ inflight = [p \in Tree |-> 0]
  /\ burst = [p \in Tree |-> BurstNone]
  /\ run = RunIdle
  /\ hist = [clean |-> FALSE, indexed |-> FALSE, retry |-> "none", had |-> {},
             fault |-> FALSE, last |-> NoLast, code |-> "none"]
  /\ proc = ProcStarted
  /\ srch = SrchIdle
  /\ ck = CkStart
  /\ tt = TtIdle
  /\ root = rootName

\* files of every kind are created, rewritten and removed, and handleEvent
\* takes the events fsnotify delivers
NextFilter ==
  \/ \E p \in Tree, c \in Contents : FsWrite(p, c, 0, MaxTreeOps)
  \/ \E p \in Tree : FsRemove(p, MaxTreeOps)
  \/ HandleEvent
  \/ DelSelDoc

SpecFilter == InitFilter /\ [][NextFilter]_vars

\* extractTitle over texts of short lines and lines at the scanner's limit,
\* for files of every name
NextTitle ==
  \/ CallTitle
  \/ ExtractTitle

SpecTitle == Init /\ [][NextTitle]_vars

\* chunkMarkdown over texts of headings, paragraph lines and empty lines
NextChunk ==
  \/ \E line \in HeadingLines \cup {BodyLine(n) : n \in BodyLens} \cup {BlankLine} :
       ReadLine(line, MaxLines)
  \/ ChunkReturn

SpecChunk == Init /\ [][NextChunk]_vars

\* chunkMarkdown over texts of headings and paragraphs above the floor
NextHeadings ==
  \/ \E line \in HeadingLines \cup {BodyLine(25)} : ReadLine(line, MaxHeadLines)
  \/ ChunkReturn

SpecHeadings == Init /\ [][NextHeadings]_vars


(***************************************************************************)
(* Properties.                                                             *)
(***************************************************************************)

\* C1: when an Index call has returned success and the tree has not
\* changed since that call began, a further Index(fullReindex = false)
\* calls the embedding provider zero times, reads no file and writes no
\* chunk: it never enters parseFile or embedPending.
C1_SecondPassIdle ==
  (mode = "index" /\ hist.indexed /\ ~ix.full) =>
    /\ run = RunIdle
    /\ pf.pc = "idle"
    /\ emb.pc = "idle"

\* the second pass has checked two notes whose chunks are embedded
C1_Witness ==
  /\ mode = "index" /\ hist.indexed /\ ~ix.full
  /\ ix.pc = "check" /\ ix.i > Len(ix.files)
  /\ Len(ix.files) >= 2
  /\ \E v \in vec_chunks : v.owner = ix.files[2]

\* C2: when a note that a successful Index call has indexed is removed and
\* an Index call that began after the removal has returned success, the
\* note has no Document, none of the chunks cut from it is stored, none of
\* their embeddings is stored, and SearchSimilar returns no row with its
\* path (stated for the behaviours in which no statement of the store
\* has failed).
C2_RemovedIsGone ==
  (mode = "off" /\ hist.indexed /\ ~hist.fault) =>
    \A p \in hist.had : ~fs[p].exists =>
      /\ DocByPath(p) = {}
      /\ \A c \in chunks : c.owner # p
      /\ \A v \in vec_chunks : v.owner # p
      /\ \A r \in SearchSimilar : r.path # p

\* C3: the create/write events of one burst on a path (each less than
\* debounceDelay after the one before, no delete/rename among them) cause
\* exactly one reindex: as long as the path is in the pending set the sweep
\* has selected no reindex for the burst, and once it is out of the set the
\* sweep has selected exactly one.
C3_OneReindexPerBurst ==
  \A p \in Tree :
    (mode = "watch" /\ burst[p].ok /\ burst[p].n >= 1) =>
      burst[p].idx = IF pending[p] >= 0 THEN 0 ELSE 1

\* a burst of two or more events has been reindexed
C3_Witness ==
  \E p \in Tree :
    /\ mode = "watch" /\ burst[p].ok /\ burst[p].n >= 2
    /\ burst[p].idx = 1
    /\ pf.pc = "upsert" /\ pf.path = p

\* the watcher has nothing left to do
Quiescent ==
  /\ mode = "watch"
  /\ events = <<>>
  /\ pending = NoPending
  /\ sw.pc = "idle" /\ pf.pc = "idle" /\ emb.pc = "idle" /\ del.pc = "idle"

\* C4: once the watcher is quiescent, a path whose last event was a
\* delete/rename has no Document (stated for the behaviours in which no
\* statement of the store has failed).
C4_DeleteWins ==
  \A p \in Tree :
    (Quiescent /\ ~hist.fault /\ burst[p].lastEv = "remove") => DocByPath(p) = {}

\* C5: every chunk's doc_id is the id of a stored Document (stated for the
\* behaviours in which no statement of the store has failed).
C5_ChunkDocLive ==
  ~hist.fault => \A c \in chunks : \E d \in documents : d.id = c.doc_id

\* C6: no row of vec_chunks has a chunk_id without a row in chunks, at
\* every step of DeleteDocument and DeleteChunksForDocument, also when one
\* of their statements has failed, and after every delete and reindex.
C6_NoOrphanEmbedding ==
  \A v \in vec_chunks : \E c \in chunks : c.id = v.chunk_id

\* C7: when an Index call was aborted by the embedding provider and the
\* next call, with fullReindex = false and the tree unchanged, has returned
\* success, every stored chunk has an embedding.
C7_RetryEmbeds ==
  (hist.retry = "retried" /\ ~hist.fault) =>
    \A c \in chunks : \E v \in vec_chunks : v.chunk_id = c.id

\* the notes Index has checked and not put on filesToIndex
Skipped == {f \in {m[1] : m \in ix.mt} : f \notin Range(ix.toIndex)}

\* C8 (decision): a checked note is on filesToIndex if and only if
\* fullReindex is set, or no Document was stored for it, or its modification
\* time is strictly greater than the stored modified_at.
C8_Decision ==
  mode = "index" =>
    \A m \in ix.mt :
      LET docs == {d \in ix.existing : d.path = m[1]}
      IN m[1] \in Range(ix.toIndex) <=>
           (ix.full \/ docs = {} \/ \E d \in docs : m[2] > d.modified_at)

\* C8 (skip): a note that is not on filesToIndex is not read, its Document
\* and its chunks stay as they were when Index began, and no text cut from
\* it is among the units for the embedding provider.
C8_SkipUntouched ==
  (mode = "index" /\ ~hist.fault) =>
    \A f \in Skipped :
      LET docs == {d \in ix.existing : d.path = f}
      IN /\ f \notin run.reads
         /\ DocByPath(f) = docs
         /\ \A d \in docs : {c \in chunks : c.doc_id = d.id}
                            = {c \in ix.chunks0 : c.doc_id = d.id}
         /\ \A k \in 1..Len(ix.allPending) : ix.allPending[k].owner # f
         /\ \A k \in 1..Len(pf.pending) : pf.pending[k].owner # f

\* C8: for every present path, Index reprocesses the file if and only if
\* fullReindex is set, or no Document is stored, or the modification time
\* is strictly greater than modified_at; any other file is left untouched.
C8_Claim == C8_Decision /\ C8_SkipUntouched

\* C9: at no time are two reindexes of the same path in flight.
C9_SingleFlight == \A p \in Tree : inflight[p] <= 1

\* a path is due again while its own reindex is still in flight
C9_Witness ==
  \E p \in Tree : inflight[p] = 1 /\ pending[p] >= debounceDelay

\* C10: when the vector search yields candidates c[0..n-1] and the
\* reranker answers r[0..m-1] with in-range indexes, Search returns exactly
\* m results; result i (from 0) carries the path, heading, content, line
\* range, document id and chunk id of c[r[i].index], rank i + 1 and score
\* r[i].score.  A candidate the response does not name is absent, and no
\* candidate's vector distance appears as a result's score.
C10_ResultsFollowRerank ==
  (srch.pc = "done" /\ srch.err = "none" /\ srch.candidates # <<>>) =>
    LET c == srch.candidates
        r == srch.rerankResults
        res == srch.results
    IN /\ Len(res) = Len(r)
       /\ \A i \in 1..Len(r) :
            LET cand == c[r[i].index + 1]
            IN /\ res[i].Rank = i
               /\ res[i].Score = r[i].score
               /\ res[i].Path = cand.Path
               /\ res[i].Text = cand.Text
               /\ res[i].DocID = cand.DocID
               /\ res[i].ChunkID = cand.ID
       /\ \A k \in 1..Len(c) :
            (\A i \in 1..Len(r) : r[i].index # k - 1) =>
              \A i \in 1..Len(res) : res[i].ChunkID # c[k].ID
       /\ \A i \in 1..Len(res), k \in 1..Len(c) : res[i].Score # c[k].Distance

\* three candidates, the reranker names the third and then the first
C10_Witness ==
  /\ srch.pc = "done" /\ srch.err = "none"
  /\ Len(srch.candidates) = 3
  /\ srch.rerankResults = <<[index |-> 2, score |-> 9], [index |-> 0, score |-> 5]>>
  /\ Len(srch.results) = 2

\* C11: when the vector search has returned zero candidates, Search
\* returns an empty result list and no error, and neither the rerank
\* method of the client nor the rerank endpoint has been called.
C11_EmptyNoRerank ==
  (srch.pc = "done" /\ srch.fault = "none" /\ srch.candidates = <<>>) =>
    /\ srch.results = <<>>
    /\ srch.err = "none"
    /\ \A i \in 1..Len(srch.calls) : srch.calls[i] \notin {"Rerank", "V2.Rerank"}

\* Search has returned over a store without embedded chunks
C11_Witness ==
  /\ srch.pc = "done" /\ srch.fault = "none" /\ srch.candidates = <<>>
  /\ vec_chunks = {}
  /\ srch.calls = <<"EmbedQuery", "V2.Embed">>

\* the error Search returns for each failure of the environment
C12_Expected ==
  [fault \in {"embed", "no embedding", "vector search", "rerank"} |->
     CASE fault = "embed" -> <<"failed to embed query", "embed query failed">>
       [] fault = "no embedding" -> <<"failed to embed query", "no embedding returned">>
       [] fault = "vector search" -> <<"vector search failed", "query failed">>
       [] fault = "rerank" -> <<"rerank failed", "rerank request failed">>]

\* C12: when the query embedding fails, the provider returns no embedding,
\* the vector search fails or the rerank request fails, Search returns the
\* error of that step and no result at all.
C12_FailureNamed ==
  (srch.pc = "done" /\ srch.fault # "none") =>
    /\ <<srch.err, srch.cause>> = C12_Expected[srch.fault]
    /\ srch.results = <<>>

\* the rerank request has failed after a vector search with candidates
C12_Witness ==
  /\ srch.pc = "done" /\ srch.fault = "rerank"
  /\ Len(srch.candidates) >= 2
  /\ srch.err = "rerank failed"

\* C13: the chunks chunkMarkdown returns are in order of non-decreasing
\* start_line, and of two consecutive chunks the first ends before the
\* second starts.
C13_Ordered ==
  ck.pc = "done" =>
    \A i \in 1..(Len(ck.chunks) - 1) :
      /\ ck.chunks[i].StartLine <= ck.chunks[i + 1].StartLine
      /\ ck.chunks[i].EndLine < ck.chunks[i + 1].StartLine

\* three chunks returned, one of them flushed by the size budget
C13_Witness ==
  /\ ck.pc = "done"
  /\ Len(ck.chunks) >= 3
  /\ \E i \in 1..Len(ck.flushed) : ck.flushed[i].why = "size"

\* C14: of every chunk returned, start_line is the number of the first line
\* accumulated into its buffer and end_line the number of the last line
\* appended to it, whether the buffer was flushed by a heading, by the size
\* budget or at the end of the input.
C14_LineNumbers ==
  ck.pc = "done" =>
    \A i \in 1..Len(ck.chunks) :
      /\ ck.chunks[i].StartLine = Head(ck.chunks[i].Buf)
      /\ ck.chunks[i].EndLine = ck.chunks[i].Buf[Len(ck.chunks[i].Buf)]

\* the heading levels of the lines read (0: not a heading)
Levels == [i \in 1..Len(ck.lines) |-> ck.lines[i].level]

\* the heading texts joined into a breadcrumb
Unjoin(heading) == [i \in 1..((Len(heading) + 1) \div 2) |-> heading[2 * i - 1]]

\* the text # A, ## B, ### C, ## D, a paragraph under each: the chunk under
\* C has the breadcrumb A > B > C, the chunk under D has A > D
C15_Example ==
  (ck.pc = "done" /\ Levels = <<1, 0, 2, 0, 3, 0, 2, 0>>) =>
    /\ Len(ck.chunks) = 4
    /\ ck.chunks[3].Heading = <<1, " > ", 3, " > ", 5>>
    /\ ck.chunks[4].Heading = <<1, " > ", 7>>

\* a step that reads a heading of level L keeps the stack entries at depth
\* less than L, drops the others and pushes the heading
C15_Replace ==
  (Len(ck'.lines) = Len(ck.lines) + 1 /\ ck'.lines[Len(ck'.lines)].level > 0) =>
    LET L == ck'.lines[Len(ck'.lines)].level
        old == ck.headingStack
        new == ck'.headingStack
    IN /\ Len(new) = (IF Len(old) < L THEN Len(old) ELSE L - 1) + 1
       /\ \A i \in 1..(Len(new) - 1) : new[i] = old[i]
       /\ new[Len(new)] = Len(ck'.lines)
       /\ ck'.currentHeading = Join(new)

\* C15: for headings of levels 1, 2, 3 then 2, each followed by body text
\* above the length floor, the chunk under the third has the breadcrumb of
\* all three and the chunk under the fourth that of the first and fourth;
\* in general a heading at level L replaces every stack entry at depth L or
\* deeper before it is pushed.
C15_Breadcrumbs == []C15_Example /\ [][C15_Replace]_vars

\* chunkMarkdown has returned the chunks of # A, ## B, ### C, ## D
C15_Witness ==
  /\ ck.pc = "done" /\ Levels = <<1, 0, 2, 0, 3, 0, 2, 0>>
  /\ Len(ck.chunks) = 4
  /\ Unjoin(ck.chunks[4].Heading) = <<1, 7>>

\* C16: for any sequence of heading levels, the breadcrumb of a chunk under
\* a heading of level L holds no text of an earlier heading whose level is
\* L or deeper.
C16_NoStaleDeeper ==
  ck.pc = "done" =>
    \A k \in 1..Len(ck.chunks) :
      LET crumb == Unjoin(ck.chunks[k].Heading)
      IN \A i \in 1..(Len(crumb) - 1) :
           ck.lines[crumb[i]].level < ck.lines[crumb[Len(crumb)]].level

\* the heading stack in force once the first n lines have been read
RECURSIVE StackAt(_, _)
StackAt(lines, n) ==
  IF n = 0 THEN <<>>
  ELSE IF lines[n].level > 0
       THEN Append(PopTo(StackAt(lines, n - 1), lines[n].level), n)
       ELSE StackAt(lines, n - 1)

\* C17: every chunk's heading is the heading stack in force at the chunk's
\* start line, joined by " > ": a buffer flushed by a heading line carries
\* the breadcrumb from before that heading, a chunk that begins at a
\* heading line the new one, and a text without heading lines yields
\* chunks with an empty heading.
C17_HeadingAtStart ==
  ck.pc = "done" =>
    /\ \A k \in 1..Len(ck.chunks) :
         ck.chunks[k].Heading = Join(StackAt(ck.lines, ck.chunks[k].StartLine))
    /\ (\A i \in 1..Len(ck.lines) : ck.lines[i].level = 0) =>
         \A k \in 1..Len(ck.chunks) : ck.chunks[k].Heading = <<>>

\* a chunk before the first heading, a chunk flushed by a heading and a
\* chunk under a nested heading
C17_Witness ==
  /\ ck.pc = "done"
  /\ Len(ck.chunks) >= 3
  /\ ck.chunks[1].Heading = <<>>
  /\ \E k \in 1..Len(ck.chunks) : Len(Unjoin(ck.chunks[k].Heading)) >= 2

\* the trimmed length of a flushed buffer
FlushedLen(f) == TextLen(ck.lines, TrimSpace(ck.lines, f.buf))

\* the flushed buffers whose trimmed length is above the floor
LongFlushed == SelectSeq(ck.flushed, LAMBDA f : FlushedLen(f) > minChunkLen)

LineRange(a, b) == [i \in 1..(b - a + 1) |-> a + i - 1]

\* the text read is one heading line followed by lines that are no headings
SingleSection ==
  /\ Len(ck.lines) >= 2
  /\ ck.lines[1].level > 0
  /\ \A i \in 2..Len(ck.lines) : ck.lines[i].level = 0

\* the lines at which the text from its first line on has passed the budget
OverBudget ==
  {n \in 1..Len(ck.lines) :
     WrittenLen(ck.lines, LineRange(1, n)) > maxChunkTokens * avgCharsPerToken}

\* the claim as worded: a single heading followed by content of several
\* lines and of more than 2000 characters yields at least 2 chunks, all of
\* them with the heading's breadcrumb
C19_Original ==
  (/\ ck.pc = "done"
   /\ SingleSection
   /\ Len(ck.lines) >= 3
   /\ TextLen(ck.lines, LineRange(2, Len(ck.lines)))
        > maxChunkTokens * avgCharsPerToken)
  => /\ Len(ck.chunks) >= 2
     /\ \A k \in 1..Len(ck.chunks) : ck.chunks[k].Heading = <<1>>

\* C19: a single heading followed by multi-line content yields at least 2
\* chunks when the text passes the size budget (2000 characters) at some
\* line and both the text up to that line and the text after it, itself
\* within the budget, are longer than 20 characters once trimmed; all
\* chunks of that section carry the same heading breadcrumb.
C19_SplitSection ==
  (ck.pc = "done" /\ SingleSection) =>
    /\ \A k \in 1..Len(ck.chunks) : ck.chunks[k].Heading = <<1>>
    /\ OverBudget # {} =>
         LET cut == MinOf(OverBudget)
             head == LineRange(1, cut)
             tail == LineRange(cut + 1, Len(ck.lines))
         IN (/\ TextLen(ck.lines, TrimSpace(ck.lines, head)) > minChunkLen
             /\ WrittenLen(ck.lines, tail) <= maxChunkTokens * avgCharsPerToken
             /\ TextLen(ck.lines, TrimSpace(ck.lines, tail)) > minChunkLen)
            => Len(ck.chunks) >= 2

\* a heading and content cut by the size budget into two kept chunks
C19_Witness ==
  /\ ck.pc = "done" /\ SingleSection
  /\ OverBudget # {} /\ MinOf(OverBudget) < Len(ck.lines)
  /\ Len(ck.chunks) = 2
  /\ ck.chunks[1].Heading = ck.chunks[2].Heading
  /\ \E i \in 1..Len(ck.flushed) : ck.flushed[i].why = "size"

\* the chunks stored for the Document of path are the chunks of content,
\* in the order of their ids, each with exactly one embedding
StoredExactly(path, content) ==
  /\ DocByPath(path) # {}
  /\ \A d \in DocByPath(path) :
       LET ids == ChunkIDsOf(d.id)
       IN /\ Len(ids) = Len(chunkTexts(content))
          /\ \A k \in 1..Len(ids) :
               /\ \E c \in chunks : c.id = ids[k] /\ c.text = chunkTexts(content)[k]
               /\ Cardinality({v \in vec_chunks : v.chunk_id = ids[k]}) = 1

\* the watcher's indexFile returns success for a path that had a Document
ReindexDone ==
  /\ hist.last.result = "running"
  /\ hist'.last.result = "ok"
  /\ hist.last.had

\* C20: when a single-file reindex (parseFile, then embedPending) of a path
\* that was already indexed returns success, the Document's stored chunks
\* are exactly the chunks of the content read, in order, none of the
\* previous version remains, and each has exactly one embedding.
C20_ReindexExact ==
  [][ReindexDone => StoredExactly(hist.last.path, hist.last.content)']_vars

\* totalBatches := (len(pending) + batchSize - 1) / batchSize
CeilDiv(n, b) == (n + b - 1) \div b

\* the texts of the units of batch b of the last indexFile call
ExpectedBatch(b) ==
  LET n == Len(hist.last.units)
      hi == IF batchSize * b > n THEN n ELSE batchSize * b
  IN Texts(SubSeq(hist.last.units, batchSize * (b - 1) + 1, hi))

\* the embeddings stored under a chunk id
VecsOf(id) == {v \in vec_chunks : v.chunk_id = id}

\* unit k of the last indexFile call has its own vector stored, once
UnitStored(k) ==
  LET u == hist.last.units[k]
  IN /\ Cardinality(VecsOf(u.chunkID)) = 1
     /\ \A v \in VecsOf(u.chunkID) : v.embedding = Embed(u.content)

\* C21: for n pending units embedPending makes exactly ceil(n/batchSize)
\* provider calls one after another; call b receives the texts of units
\* batchSize(b-1)+1 .. min(batchSize b, n) in their order, and the i-th
\* vector a call returns is stored under the chunk id of its i-th unit.
C21_Batches ==
  LET L == hist.last
      n == Len(L.units)
  IN /\ \A b \in 1..Len(L.calls) : L.calls[b].texts = ExpectedBatch(b)
     /\ emb.pc = "call" =>
          \A k \in 1..n : k <= batchSize * Len(L.calls) => UnitStored(k)
     /\ L.result = "ok" =>
          /\ Len(L.calls) = CeilDiv(n, batchSize)
          /\ \A k \in 1..n : UnitStored(k)

\* embedPending has returned nil after two or more calls, the last one
\* shorter than a full batch
C21_Witness ==
  /\ hist.last.result = "ok"
  /\ Len(hist.last.calls) >= 2
  /\ Len(hist.last.calls[Len(hist.last.calls)].texts) < batchSize
  /\ \A k \in 1..Len(hist.last.units) : UnitStored(k)

\* C22: if the provider call for batch k fails, embedPending returns an
\* error and makes no further provider call; every unit of batches 1..k-1
\* keeps its stored embedding and no unit of batch k or later has one.
C22_AbortOnFailure ==
  LET L == hist.last
      n == Len(L.units)
      k == Len(L.calls)
  IN /\ \A b \in 1..k :
          ~L.calls[b].ok => b = k /\ L.result = "provider" /\ emb.pc = "idle"
     /\ L.result = "provider" =>
          /\ ~L.calls[k].ok
          /\ \A u \in 1..n :
               IF u <= batchSize * (k - 1) THEN UnitStored(u)
               ELSE VecsOf(L.units[u].chunkID) = {}

\* the call for the second batch has failed after the first was stored
C22_Witness ==
  /\ hist.last.result = "provider"
  /\ Len(hist.last.calls) = 2
  /\ Len(hist.last.units) > batchSize
  /\ UnitStored(1)
  /\ VecsOf(hist.last.units[batchSize + 1].chunkID) = {}

\* the step is parseFile's os.Stat or os.ReadFile failing under Index
ParseFails ==
  /\ mode = "index"
  /\ pf.pc \in {"stat", "read"}
  /\ ~fs[pf.path].exists
  /\ pf' # pf

\* the step is needsIndexing's os.Stat failing
CheckFails ==
  /\ mode = "index"
  /\ ix.pc = "check"
  /\ ix.i <= Len(ix.files)
  /\ ~ix.full
  /\ \E d \in ix.existing : d.path = ix.files[ix.i]
  /\ ~fs[ix.files[ix.i]].exists
  /\ ix' # ix

\* Index returns an error at once: no later file is read, no provider call
\* was or will be made in the pass
C23_Abort ==
  (ParseFails \/ CheckFails) =>
    /\ mode' = "off"
    /\ hist'.code = "err"
    /\ ix' = IxIdle /\ pf' = PfIdle /\ emb' = EmbIdle
    /\ run.embedCalls = 0
    /\ UNCHANGED <<documents, chunks, vec_chunks>>
    /\ ParseFails =>
         \A k \in (ix.i + 1)..Len(ix.toIndex) : ix.toIndex[k] \notin run.reads

\* no provider call is made while files are checked and parsed
C23_ParseFirst ==
  (mode = "index" /\ ix.pc \in {"del", "check", "parse"}) =>
    run.embedCalls = 0 /\ emb.pc = "idle"

\* C23: if stat or read of any one file fails during Index, Index returns
\* an error, processes no later file of that pass and issues no
\* embedding-provider call for that pass: embedding starts only after
\* every file to reindex has been parsed.
C23_FailFast == []C23_ParseFirst /\ [][C23_Abort]_vars

\* Index has returned an error after it had parsed an earlier note, whose
\* chunk has no embedding
C23_Witness ==
  /\ mode = "off"
  /\ hist.code = "err"
  /\ \E c \in chunks : VecsOf(c.id) = {}

\* handleEvent takes a Remove or Rename event for p off the channel
RemoveHandled(p) ==
  /\ mode = "watch"
  /\ mode' = "watch"
  /\ events # <<>>
  /\ events' = Tail(events)
  /\ Head(events).name = p
  /\ Head(events).op \in {"remove", "rename"}

\* the step in which DeleteDocument(p), called by handleEvent, returns nil:
\* its last statement has deleted a row, or it found no row for p
DeleteDone(p) ==
  /\ mode = "watch"
  /\ del.path = p
  /\ del'.pc = "idle"
  /\ \/ del.pc = "delDoc" /\ documents' # documents
     \/ del.pc = "selDoc"

\* indexFile(p) is running, or the sweep has p in the list it is working off
Selected(p) ==
  \/ inflight[p] > 0
  \/ sw.pc = "loop" /\ \E k \in 1..Len(sw.toIndex) : sw.toIndex[k] = p

\* the handling of a delete/rename event: out of the pending set and into
\* DeleteDocument in one step, whatever the age of the entry
C24_Unpend ==
  \A p \in Tree :
    /\ RemoveHandled(p) => pending'[p] = -1 /\ del'.pc = "selDoc" /\ del'.path = p
    /\ DeleteDone(p) => DocByPath(p)' = {}

\* C24: a delete/rename event for p, pending or not, takes p out of the
\* pending set in the same step and deletes its Document without waiting for
\* the debounce window; while that event is the last one handled for p and
\* it found p pending, no reindex of p runs or is about to run
C24_DeleteUnpends ==
  /\ [][C24_Unpend]_vars
  /\ [](\A p \in Tree : burst[p].cut => ~Selected(p))

\* the step of indexPendingFiles under w.mu that picks the paths to index
Selecting == sw.pc = "locked" /\ sw'.pc # "locked"

\* the paths that step has picked
Picked == {sw'.toIndex[k] : k \in 1..Len(sw'.toIndex)}

\* the step in which indexFile(p), called by the sweep, returns
Returned(p) == mode = "watch" /\ inflight[p] = 1 /\ inflight'[p] = 0

\* C25 as stated: a path is picked only when the time since its last
\* create/write event exceeds the debounce window, and its pending entry is
\* removed in that locked step; when its reindex returns, it is neither
\* pending nor in flight.
C25_Original ==
  [][\A p \in Tree :
       /\ (Selecting /\ p \in Picked) =>
            /\ mu = "sw"
            /\ pending[p] > debounceDelay
            /\ pending'[p] = -1
       /\ Returned(p) => pending'[p] = -1 /\ ~Selected(p)']_vars

\* C25: the sweep picks path p, and so invokes its reindex, only when the
\* time since p's most recent create/write event is at least the debounce
\* window, and removes p's pending entry in the same step, taken with the
\* mutex held; when the reindex returns, successfully or not, p is not in
\* flight, and it is pending only on account of a create/write event
\* handled after p was picked.
C25_Debounced ==
  [][\A p \in Tree :
       /\ (Selecting /\ p \in Picked) =>
            /\ mu = "sw"
            /\ pending[p] >= debounceDelay
            /\ burst[p].since >= debounceDelay
            /\ pending'[p] = -1
       /\ Returned(p) =>
            /\ ~Selected(p)'
            /\ pending'[p] >= 0 => burst'[p].lastEv = "write" /\ burst'[p].idx = 0]_vars

\* a reindex has returned (with an error or not) for a path that an event
\* handled meanwhile has made pending again
C25_Witness ==
  \E p \in Tree :
    /\ hist.last.path = p
    /\ hist.last.result \notin {"none", "running"}
    /\ inflight[p] = 0
    /\ pending[p] >= 0
    /\ burst[p].idx = 0

\* a step that adds p to the pending set, removes it or resets its
\* timestamp (the passing of time, which changes no entry of the map, and
\* the end of the process are not mutations)
Mutated(p) ==
  /\ mode = "watch" /\ mode' = "watch"
  /\ pending'[p] # pending[p]
  /\ pending'[p] # Aged(pending[p])

\* the event task is between w.mu.Lock() and the deferred w.mu.Unlock()
EventSection == mode = "watch" /\ del.pc # "idle"

\* the sweep task is between w.mu.Lock() and w.mu.Unlock()
SweepSection == sw.pc = "locked"

\* the sweep task is in its loop over toIndex, where it calls indexFile
Reindexing == sw.pc = "loop"

\* each task is in its section exactly when it holds the mutex, and a
\* change of the pending set is made by the sweep in its section or by the
\* event task in a step that found the mutex free and took it
MutexGuards ==
  /\ [](SweepSection <=> mu = "sw")
  /\ [](mode = "watch" => (EventSection <=> mu = "ev"))
  /\ [][\A p \in Tree :
          Mutated(p) => \/ SweepSection /\ mu = "sw"
                        \/ mu = "none" /\ events' = Tail(events) /\ Head(events).name = p]_vars

\* C26 as stated: the accesses to the pending set are made under the
\* mutex, and the mutex is never held while an indexFile is running.
C26_Original ==
  /\ MutexGuards
  /\ [](Reindexing => mu = "none")

\* C26: every read and write of the pending set by the event task and by
\* the sweep task happens while the single mutex is held, so no two
\* mutations interleave, and the sweep task, which calls indexFile, does not
\* hold the mutex while an indexFile is running.
C26_LockDiscipline ==
  /\ MutexGuards
  /\ [](Reindexing => mu # "sw")

\* handleEvent holds the mutex in DeleteDocument while the sweep task is in
\* indexFile
C26_Witness ==
  /\ mu = "ev"
  /\ EventSection
  /\ Reindexing
  /\ \E p \in Tree : inflight[p] = 1

\* both goroutines of the watcher have returned or are gone with the process
TasksStopped == proc.ev = "done" /\ proc.swp = "done"

\* C27: after the cancellation signal is raised in watch mode, both the
\* event-consuming task and the sweep task eventually stop, and the
\* filesystem notification handle is released (closed).
C27_Shutdown ==
  (proc.ctx = "cancelled") ~> (TasksStopped /\ proc.handle = "closed")

\* the process ends while an indexFile call is running
Killed == mode = "watch" /\ mode' = "off" /\ \E p \in Tree : inflight[p] > 0

\* the only provider calls of the last indexFile call that failed were made
\* on the cancelled context, and no statement of the store failed
OnlyCancelled ==
  /\ ~hist.fault
  /\ \A k \in 1..Len(hist.last.calls) : hist.last.calls[k].ok \/ ~hist.last.calls[k].live

\* C28: a reindex that is in flight when the cancellation signal is raised
\* runs to completion: it is not cut off by the end of the process, and
\* when it returns the embeddings of all chunks it wrote are stored, unless
\* something other than the cancellation has failed.
C28_RunsToCompletion ==
  /\ [][~Killed]_vars
  /\ [][\A p \in Tree :
          (Returned(p) /\ hist.last.atCancel /\ OnlyCancelled') =>
            \A k \in 1..Len(hist.last.units) : UnitStored(k)']_vars

\* the name of p ends in .md, whatever the case of its letters
IsNote(p) ==
  /\ Len(p) >= 3
  /\ p[Len(p) - 2] = "."
  /\ ToLower(p[Len(p) - 1]) = "m"
  /\ ToLower(p[Len(p)]) = "d"

\* position i of p is the start of a component of p
ComponentAt(p, i) == i = 1 \/ p[i - 1] = "/"

\* some component of p, the file name included, begins with "."
HiddenComponent(p) == \E i \in 1..Len(p) : ComponentAt(p, i) /\ p[i] = "."

\* p lies inside a directory whose name begins with "."
UnderHidden(p) ==
  \E i \in 1..Len(p) :
    ComponentAt(p, i) /\ p[i] = "." /\ \E j \in (i + 1)..Len(p) : p[j] = "/"

\* handleEvent takes an event for p off the channel
Handled(p) ==
  /\ mode = "watch" /\ mode' = "watch"
  /\ events # <<>>
  /\ events' = Tail(events)
  /\ Head(events).name = p

\* C29: a watcher event puts a path into the pending set only if the file
\* name ends in .md (whatever the case) and no component of the
\* root-relative path begins with "."; an event for any other path changes
\* neither the pending set nor the store (and starts no DeleteDocument).
C29_Filter ==
  [][\A p \in Tree :
       Handled(p) =>
         /\ \A q \in Tree :
              (pending[q] < 0 /\ pending'[q] >= 0) => q = p /\ IsNote(p) /\ ~HiddenComponent(p)
         /\ ~(IsNote(p) /\ ~HiddenComponent(p)) =>
              pending' = pending /\ storeVars' = storeVars /\ del' = del]_vars

\* C30: the enumeration Index uses returns, as root-relative paths, exactly
\* the .md files under the root that do not lie inside a directory whose
\* name begins with "."; no file inside such a directory or its subtree is
\* returned.
C30_Enumeration ==
  mode = "index" =>
    /\ \A p \in Tree :
         p \in Range(ix.files) <=> (fs[p].exists /\ IsNote(p) /\ ~UnderHidden(p))
    /\ \A i, j \in 1..Len(ix.files) : ix.files[i] = ix.files[j] => i = j

\* the tree has notes in hidden directories, which are left out, and a
\* hidden note and a note of a subdirectory, which are returned
C30_Witness ==
  /\ mode = "index"
  /\ fs[pathO].exists /\ fs[pathS].exists /\ fs[pathT].exists
  /\ pathO \notin Range(ix.files) /\ pathS \notin Range(ix.files)
  /\ pathH \in Range(ix.files) /\ pathN \in Range(ix.files) /\ pathB \in Range(ix.files)

\* the lines of a text that, once trimmed, begin with "# "
MarkerLines(content) == {i \in 1..Len(content) : HasMarker(TrimLine(content[i]))}

\* C31: the title is the text after the marker of the first line that, once
\* trimmed, begins with "# ", wherever in the text that line is; without such
\* a line it is the file's base name without its extension
C31_Title ==
  tt.pc = "done" =>
    tt.title = IF MarkerLines(tt.content) = {}
               THEN FileTitle(tt.relPath)
               ELSE TrimMarker(TrimLine(tt.content[MinOf(MarkerLines(tt.content))]))

\* the Documents whose path the enumeration of the running Index call lacks
Absent(docs) == {d \in docs : d.path \notin Range(ix.files)}

\* while Index deletes, no file has been read, no chunk written and no
\* provider call made; once it checks, parses or embeds, no Document of an
\* absent path is left
C32_DeleteFirst ==
  mode = "index" =>
    IF ix.pc = "del"
    THEN /\ run = RunIdle
         /\ pf.pc = "idle" /\ emb.pc = "idle"
    ELSE Absent(documents) = {}

\* a return of Index after the deletions, with or without an error and
\* whether or not a file needed reindexing, leaves the Documents deleted
C32_Stays ==
  (mode = "index" /\ mode' = "off" /\ ix.pc # "del") => Absent(documents') = {}

\* C32: Index deletes every stored Document whose path is absent from the
\* enumeration before any file is read, chunked or embedded, also when no
\* file needs reindexing, and the deletion stays when the pass later aborts
\* on a file or provider error
C32_DeleteBeforeWork == []C32_DeleteFirst /\ [][C32_Stays]_vars

\* Index has deleted the Document of a note that is gone and is parsing a
\* file that has vanished since the enumeration: the pass is about to abort
C32_Witness ==
  /\ mode = "index"
  /\ ix.pc = "parse"
  /\ Absent(ix.existing) # {}
  /\ pf.pc \in {"stat", "read"}
  /\ ~fs[pf.path].exists

\* the size budget in bytes
Budget == maxChunkTokens * avgCharsPerToken

\* after every line the buffer is within the budget; a buffer was flushed
\* for its size exactly when it held more than the budget, and then it was
\* within the budget before its last line
C33_WithinBudget ==
  /\ WrittenLen(ck.lines, ck.currentChunk) <= Budget
  /\ \A k \in 1..Len(ck.flushed) :
       LET buf == ck.flushed[k].buf
       IN /\ (ck.flushed[k].why = "size") = (WrittenLen(ck.lines, buf) > Budget)
          /\ buf # <<>> => WrittenLen(ck.lines, SubSeq(buf, 1, Len(buf) - 1)) <= Budget
  /\ \A k \in 1..Len(ck.chunks) :
       LET buf == ck.chunks[k].Buf
       IN WrittenLen(ck.lines, SubSeq(buf, 1, Len(buf) - 1)) <= Budget

\* a line that is no heading and fills the buffer past the budget leaves
\* the current heading and the heading stack as they are
C33_KeepsHeading ==
  (/\ Len(ck'.lines) > Len(ck.lines)
   /\ ck'.lines[Len(ck'.lines)].level = 0
   /\ ck.size + ck'.lines[Len(ck'.lines)].len + 1 > Budget)
  => /\ ck'.currentHeading = ck.currentHeading
     /\ ck'.headingStack = ck.headingStack
     /\ ck'.currentChunk = <<>>
     /\ ck'.flushed = Append(ck.flushed, [buf |-> Append(ck.currentChunk, ck.currentLine),
                                          why |-> "size"])

\* C33: chunkMarkdown tests the size budget after each appended line and
\* flushes as soon as the buffer holds more than 2000 characters, keeping
\* the current heading; every chunk's buffer without its last appended line
\* holds at most 2000 characters
C33_BudgetAfterLine == []C33_WithinBudget /\ [][C33_KeepsHeading]_vars

\* a chunk under a heading whose buffer of several lines passed the budget
\* at its last line
C33_Witness ==
  /\ ck.pc = "done"
  /\ \E k \in 1..Len(ck.chunks) :
       /\ Len(ck.chunks[k].Buf) >= 2
       /\ WrittenLen(ck.lines, ck.chunks[k].Buf) > Budget
       /\ ck.chunks[k].Heading # <<>>

\* C34: UpsertDocument returns the id of the Document stored for the path,
\* when it inserts a row and when it updates one, so that parseFile deletes
\* and inserts chunks under the document's own id
C34_UpsertId ==
  pf.pc = "selChunks" => \E d \in DocByPath(pf.path) : d.id = pf.docID

\* C35: for every chunk chunkMarkdown returns, 1 <= start_line <= end_line
\* <= number of input lines, also when the first line of a buffer alone
\* passes the 2000-character budget
C35_LineBounds ==
  ck.pc = "done" =>
    \A k \in 1..Len(ck.chunks) :
      /\ 1 <= ck.chunks[k].StartLine
      /\ ck.chunks[k].StartLine <= ck.chunks[k].EndLine
      /\ ck.chunks[k].EndLine <= Len(ck.lines)

\* C36: when the provider answers a batch without error but with fewer
\* vectors than texts, embedPending returns an error for that batch: it
\* does not go on to store vectors from the short list and never reads
\* past the end of the list
C36_ShortAnswer ==
  /\ emb.pc = "store" => Len(emb.vecs) = Len(Batch(emb))
  /\ emb.pc # "panic"

\* whatever the root's own name, Index enumerates the notes directly under
\* it and the watcher has a watch on it
C37_RootSeen ==
  \A p \in Tree :
    DirComponents(p) = {} =>
      /\ Watched(p)
      /\ (mode = "index" /\ fs[p].exists /\ IsNote(p)) => p \in Range(ix.files)

\* no step of Index deletes the Document of a file that exists outside
\* the hidden directories below the root
C37_Kept ==
  mode = "index" =>
    \A d \in documents :
      (fs[d.path].exists /\ ~UnderHidden(d.path))
        => \E e \in documents' : e.path = d.path

\* C37: the hidden-directory skip applies only to directories below the
\* root: for any root directory, also one whose own name begins with ".",
\* the notes directly under the root are enumerated and the root is
\* watched, so that Index never deletes the Document of a file that still
\* exists in a non-hidden location under the root
C37_RootNotHidden == []C37_RootSeen /\ [][C37_Kept]_vars

\* handleEvent takes a create/write event for p while indexFile(p) runs
LateWrite(p) ==
  /\ Handled(p)
  /\ Head(events).op \in {"write", "create"}
  /\ IsNote(p) /\ ~HiddenComponent(p)
  /\ inflight[p] > 0

\* an event for p was handled during the reindex of p and the sweep has not
\* selected p since
Late(p) == mode = "watch" /\ inflight[p] > 0 /\ pending[p] >= 0

\* the sweep has selected p again and indexFile(p) has just been called
Restarted(p) ==
  /\ pending[p] < 0
  /\ inflight[p] > 0
  /\ pf.pc = "stat" /\ pf.path = p

\* parseFile is at an InsertChunk for which the model has no rowid left
RowidsSpent == pf.pc = "insert" /\ NextChunkID > MaxRowid

\* the event puts the path into the pending set with a new timestamp
C38_Repend == \A p \in Tree : LateWrite(p) => pending'[p] = 0

\* C38: a create/write event for an eligible path that arrives while that
\* path is being reindexed is not lost: the path re-enters the pending set,
\* and, no delete/rename following, a new reindex of the path that starts
\* after the event is eventually invoked (the sweeps keep running)
C38_NotLost ==
  /\ [][C38_Repend]_vars
  /\ \A p \in NotePaths : Late(p) ~> (Restarted(p) \/ RowidsSpent)

\* the note has been rewritten and the event handled while its reindex is
\* embedding
C38_Witness ==
  /\ Late(pathA)
  /\ emb.pc \in {"call", "store"}
  /\ burst[pathA].lastEv = "write"

\* C39: the watcher and Index agree on which paths are notes: a
\* create/write event for a path of a watched directory puts the path into
\* the pending set if and only if Index's enumeration returns that path
\* when the file exists
C39_Agree ==
  [][\A p \in Tree :
       (Handled(p) /\ Head(events).op \in {"write", "create"})
         => ((pending'[p] >= 0) <=> WalkVisible(p))]_vars

\* the buffers the lines were appended to: those flushed, then the current
Buffers == [k \in 1..(Len(ck.flushed) + 1) |->
              IF k <= Len(ck.flushed) THEN ck.flushed[k].buf ELSE ck.currentChunk]

\* the buffers one after the other
RECURSIVE Flat(_)
Flat(bufs) == IF bufs = <<>> THEN <<>> ELSE Head(bufs) \o Flat(Tail(bufs))

\* the chunks whose content holds line i
ChunksWith(i) == {k \in 1..Len(ck.chunks) : i \in Range(ck.chunks[k].Content)}

\* the flushed buffers that hold line i
FlushedWith(i) == {k \in 1..Len(ck.flushed) : i \in Range(ck.flushed[k].buf)}

\* line i has only whitespace and lies at the start or the end of buffer
\* buf, where the trim removes it
TrimmedOff(i, buf) ==
  /\ ~ck.lines[i].solid
  /\ \/ \A j \in Range(buf) : j <= i => ~ck.lines[j].solid
     \/ \A j \in Range(buf) : j >= i => ~ck.lines[j].solid

\* the claim as worded: every line is in exactly one buffer, and the only
\* lines missing from all chunks are those of buffers dropped by the floor
C40_Original ==
  /\ Flat(Buffers) = LineRange(1, Len(ck.lines))
  /\ ck.pc = "done" =>
       \A i \in 1..Len(ck.lines) :
         ChunksWith(i) = {} =>
           \A k \in FlushedWith(i) : FlushedLen(ck.flushed[k]) <= minChunkLen

\* C40: chunkMarkdown appends every input line to exactly one buffer: no
\* line's text appears in two chunks, the lines appear in the chunks in
\* input order, and the only lines missing from all chunks are those of
\* buffers dropped by the 20-character floor and whitespace-only lines at
\* the start or end of a buffer, which the trim removes
C40_Partition ==
  /\ Flat(Buffers) = LineRange(1, Len(ck.lines))
  /\ \A k \in 1..Len(ck.chunks) :
       LET text == ck.chunks[k].Content
       IN /\ text # <<>>
          /\ text = LineRange(Head(text), text[Len(text)])
          /\ k > 1 => ck.chunks[k - 1].Content[Len(ck.chunks[k - 1].Content)] < Head(text)
  /\ ck.pc = "done" =>
       \A i \in 1..Len(ck.lines) :
         ChunksWith(i) = {} =>
           \A k \in FlushedWith(i) :
             \/ FlushedLen(ck.flushed[k]) <= minChunkLen
             \/ TrimmedOff(i, ck.flushed[k].buf)

\* two chunks were returned, a buffer with text was dropped by the floor,
\* and a kept buffer ended in an empty line
C40_Witness ==
  /\ ck.pc = "done"
  /\ Len(ck.chunks) >= 2
  /\ \E k \in 1..Len(ck.flushed) :
       /\ FlushedLen(ck.flushed[k]) \in 1..minChunkLen
  /\ \E k \in 1..Len(ck.chunks) :
       Len(ck.chunks[k].Content) < Len(ck.chunks[k].Buf)

TypeOK ==
  /\ mode \in {"off", "index", "watch", "search"}
  /\ mu \in {"none", "ev", "sw"}
  /\ proc \in [ctx : {"none", "live", "cancelled"}, main : {"none", "start", "exited"},
               ev : {"none", "run", "done"}, swp : {"none", "run", "done"},
               handle : {"none", "open", "closed"}]
  /\ \A p \in Tree : pending[p] \in -1..(debounceDelay + 1)
  /\ tt.pc \in {"idle", "scan", "done"}
  /\ tt.next \in 1..(Len(tt.content) + 1)
  /\ root \in RootNames
  /\ emb.pc \in {"idle", "call", "store", "panic"}

====
